---- MODULE Spec2Model ----
(***************************************************************************)
(* A model of the knowledge-graph-augmented retrieval core:                *)
(*   src/src/knowledge_graph/cskg.py   CybersecurityKnowledgeGraph         *)
(*   src/src/rag/traditional_rag.py    TraditionalRAG                      *)
(*   src/src/rag/agentic_graph_rag.py  AgenticGraphRAG                     *)
(* Three specifications share the variables:                               *)
(*   SpecSeed  the graph built from the shipped seed catalogue, queried    *)
(*   Spec      the same construction and queries over a bounded family of  *)
(*             catalogues (repeated pairs, self loops, untyped nodes)      *)
(*   SpecRAG   one retrieval engine: add_documents, retrieve,              *)
(*             generate_response                                           *)
(***************************************************************************)
EXTENDS Integers, Sequences, FiniteSets, TLC

VARIABLES
  catalogue,   \* the entity and relationship lists _initialize_cskg reads
  graph,       \* self.graph of the knowledge graph
  phase,       \* "new" before _initialize_cskg has run, "ready" after
  call,        \* the last knowledge-graph call: operation, arguments, outcome
  rag,         \* one retrieval engine: method, documents, embeddings, index, dimension
  ret,         \* the last engine call: operation, arguments, outcome
  runner,      \* one run of run_experiment.py: inputs, position, what it has done
  engines,     \* two engine instances and the objects they refer to
  evaluation   \* the last call of the evaluator: operation, arguments, result

kgvars == <<catalogue, graph, phase, call>>

ragvars == <<rag, ret>>

vars == <<catalogue, graph, phase, call, rag, ret, runner, engines, evaluation>>

(***************************************************************************)
(* Bounds of the model.                                                    *)
(***************************************************************************)
MaxEntities == 5
MaxRels == 4
MaxDepth == 2

(***************************************************************************)
(* Python values.  A dict is a function from its keys; {} is the function   *)
(* with the empty domain.                                                  *)
(***************************************************************************)
EmptyDict == [k \in {} |-> k]

\* dict.get(key, default)
Get(d, key, default) == IF key \in DOMAIN d THEN d[key] ELSE default

\* {**old, **new}: the keys of new override those of old
Update(old, new) == new @@ old

Range(s) == {s[i] : i \in 1..Len(s)}

Min(a, b) == IF a <= b THEN a ELSE b

RECURSIVE Orders(_)
\* The orders in which a Python set may be iterated: every arrangement of
\* its elements (string hashing is randomised per process).
Orders(S) ==
  IF S = {} THEN {<<>>}
  ELSE UNION {{<<x>> \o rest : rest \in Orders(S \ {x})} : x \in S}

RECURSIVE Concat(_)
\* the concatenation of a sequence of sequences
Concat(ss) ==
  IF Len(ss) = 0 THEN <<>>
  ELSE IF Len(ss) = 1 THEN ss[1]
  ELSE Concat(SubSeq(ss, 1, Len(ss) \div 2)) \o Concat(SubSeq(ss, Len(ss) \div 2 + 1, Len(ss)))

RECURSIVE SumSeq(_)
\* sum(s)
SumSeq(s) ==
  IF Len(s) = 0 THEN 0
  ELSE IF Len(s) = 1 THEN s[1]
  ELSE SumSeq(SubSeq(s, 1, Len(s) \div 2)) + SumSeq(SubSeq(s, Len(s) \div 2 + 1, Len(s)))

(***************************************************************************)
(* The seed catalogue of _initialize_cskg.                                 *)
(***************************************************************************)
threats ==
  << <<"Malware", [type |-> "threat", severity |-> "high", description |-> "Malicious software designed to damage or disrupt systems"]>>,
     <<"Phishing", [type |-> "threat", severity |-> "high", description |-> "Social engineering attack to steal sensitive information"]>>,
     <<"DDoS", [type |-> "threat", severity |-> "high", description |-> "Distributed Denial of Service attack"]>>,
     <<"SQL Injection", [type |-> "threat", severity |-> "critical", description |-> "Code injection technique targeting databases"]>>,
     <<"XSS", [type |-> "threat", severity |-> "medium", description |-> "Cross-Site Scripting vulnerability"]>>,
     <<"Ransomware", [type |-> "threat", severity |-> "critical", description |-> "Malware that encrypts data and demands ransom"]>>,
     <<"Zero-Day", [type |-> "threat", severity |-> "critical", description |-> "Previously unknown vulnerability"]>>,
     <<"Man-in-the-Middle", [type |-> "threat", severity |-> "high", description |-> "Interception of communication between two parties"]>> >>

vulnerabilities ==
  << <<"Buffer Overflow", [type |-> "vulnerability", cvss |-> "8.5", description |-> "Memory corruption vulnerability"]>>,
     <<"Weak Authentication", [type |-> "vulnerability", cvss |-> "7.0", description |-> "Insufficient authentication mechanisms"]>>,
     <<"Unpatched Software", [type |-> "vulnerability", cvss |-> "7.5", description |-> "Software without security updates"]>>,
     <<"Misconfiguration", [type |-> "vulnerability", cvss |-> "6.5", description |-> "Improper system configuration"]>>,
     <<"Insufficient Encryption", [type |-> "vulnerability", cvss |-> "7.0", description |-> "Weak or missing encryption"]>> >>

mitigations ==
  << <<"Multi-Factor Authentication", [type |-> "mitigation", effectiveness |-> "high", description |-> "Multiple authentication factors"]>>,
     <<"Patch Management", [type |-> "mitigation", effectiveness |-> "high", description |-> "Regular security updates"]>>,
     <<"Input Validation", [type |-> "mitigation", effectiveness |-> "high", description |-> "Validate and sanitize user input"]>>,
     <<"Encryption", [type |-> "mitigation", effectiveness |-> "high", description |-> "Data encryption at rest and in transit"]>>,
     <<"Firewall", [type |-> "mitigation", effectiveness |-> "medium", description |-> "Network traffic filtering"]>>,
     <<"IDS/IPS", [type |-> "mitigation", effectiveness |-> "medium", description |-> "Intrusion detection and prevention"]>>,
     <<"Security Training", [type |-> "mitigation", effectiveness |-> "medium", description |-> "User security awareness training"]>> >>

attack_patterns ==
  << <<"Credential Stuffing", [type |-> "attack_pattern", description |-> "Automated injection of stolen credentials"]>>,
     <<"Brute Force", [type |-> "attack_pattern", description |-> "Systematic trial of all possible combinations"]>>,
     <<"Session Hijacking", [type |-> "attack_pattern", description |-> "Takeover of a user session"]>>,
     <<"Code Injection", [type |-> "attack_pattern", description |-> "Injection of malicious code"]>> >>

relationships ==
  << <<"Malware", "exploits", "Unpatched Software">>,
     <<"Phishing", "exploits", "Weak Authentication">>,
     <<"SQL Injection", "exploits", "Buffer Overflow">>,
     <<"Ransomware", "exploits", "Unpatched Software">>,
     <<"XSS", "exploits", "Misconfiguration">>,
     <<"Man-in-the-Middle", "exploits", "Insufficient Encryption">>,
     <<"Phishing", "uses", "Credential Stuffing">>,
     <<"Malware", "uses", "Code Injection">>,
     <<"Man-in-the-Middle", "uses", "Session Hijacking">>,
     <<"Multi-Factor Authentication", "mitigates", "Phishing">>,
     <<"Multi-Factor Authentication", "mitigates", "Credential Stuffing">>,
     <<"Patch Management", "mitigates", "Malware">>,
     <<"Patch Management", "mitigates", "Ransomware">>,
     <<"Patch Management", "mitigates", "Zero-Day">>,
     <<"Input Validation", "mitigates", "SQL Injection">>,
     <<"Input Validation", "mitigates", "XSS">>,
     <<"Encryption", "mitigates", "Man-in-the-Middle">>,
     <<"Firewall", "mitigates", "DDoS">>,
     <<"IDS/IPS", "mitigates", "Malware">>,
     <<"Security Training", "mitigates", "Phishing">>,
     <<"Multi-Factor Authentication", "addresses", "Weak Authentication">>,
     <<"Patch Management", "addresses", "Unpatched Software">>,
     <<"Input Validation", "addresses", "Buffer Overflow">>,
     <<"Encryption", "addresses", "Insufficient Encryption">> >>

SeedCatalogue ==
  [entities |-> threats \o vulnerabilities \o mitigations \o attack_patterns,
   relationships |-> relationships]

(***************************************************************************)
(* networkx.DiGraph: nodes in insertion order with an attribute dict each, *)
(* and per node its successors in insertion order with an edge dict each.  *)
(***************************************************************************)
DiGraph == [nodes |-> <<>>, attrs |-> EmptyDict, adj |-> EmptyDict]

HasNode(G, n) == n \in DOMAIN G.attrs

\* G.add_node(n, **attrs): a new node is appended; a known node keeps its
\* place and has its attributes updated.
AddNode(G, n, attrs) ==
  IF HasNode(G, n)
    THEN [G EXCEPT !.attrs[n] = Update(@, attrs)]
    ELSE [nodes |-> Append(G.nodes, n),
          attrs |-> (n :> attrs) @@ G.attrs,
          adj   |-> (n :> <<>>) @@ G.adj]

EdgeIndex(G, u, v) == {i \in 1..Len(G.adj[u]) : G.adj[u][i].target = v}

HasEdge(G, u, v) == HasNode(G, u) /\ EdgeIndex(G, u, v) # {}

\* mutant of AddEdge: a multigraph, every tuple adds an edge of its own
AddEdgeParallel(G, u, v, data) ==
  LET G1 == AddNode(G, u, EmptyDict)
      G2 == AddNode(G1, v, EmptyDict)
  IN  [G2 EXCEPT !.adj[u] = Append(@, [target |-> v, data |-> data])]

\* G.add_edge(u, v, **data): missing end points become nodes without
\* attributes (u first); an edge u -> v that exists keeps its place and has
\* its data updated, so a directed graph holds one edge per ordered pair.
AddEdge(G, u, v, data) ==
  LET G1 == AddNode(G, u, EmptyDict)
      G2 == AddNode(G1, v, EmptyDict)
  IN  IF HasEdge(G2, u, v)
        THEN LET i == CHOOSE i \in EdgeIndex(G2, u, v) : TRUE
             IN  [G2 EXCEPT !.adj[u][i].data = Update(@, data)]
        ELSE [G2 EXCEPT !.adj[u] = Append(@, [target |-> v, data |-> data])]

\* G.neighbors(n): the successors of n, in insertion order
Neighbors(G, n) == [i \in 1..Len(G.adj[n]) |-> G.adj[n][i].target]

\* G.get_edge_data(u, v)
GetEdgeData(G, u, v) ==
  LET i == CHOOSE i \in EdgeIndex(G, u, v) : TRUE IN G.adj[u][i].data

NumberOfNodes(G) == Len(G.nodes)

NumberOfEdges(G) == SumSeq([i \in 1..Len(G.nodes) |-> Len(G.adj[G.nodes[i]])])

\* G.degree(n): in-degree plus out-degree (a self loop counts twice)
Degree(G, n) ==
  Len(G.adj[n]) + Cardinality({m \in DOMAIN G.attrs : HasEdge(G, m, n)})

RECURSIVE AddNodes(_, _)
\* for entity, attrs in ...: self.graph.add_node(entity, **attrs)
\* The loop over a list is the loop over its first half, and then, on the
\* graph that gave, the loop over its second half.
AddNodes(G, entities) ==
  IF Len(entities) = 0 THEN G
  ELSE IF Len(entities) = 1 THEN AddNode(G, entities[1][1], entities[1][2])
  ELSE CHOOSE H \in {AddNodes(mid, SubSeq(entities, Len(entities) \div 2 + 1, Len(entities))) :
                      mid \in {AddNodes(G, SubSeq(entities, 1, Len(entities) \div 2))}} : TRUE

RECURSIVE AddEdgesArgsSwapped(_, _)
\* mutant of AddEdges: add_edge(source, relation, target=target)
AddEdgesArgsSwapped(G, rels) ==
  IF Len(rels) = 0 THEN G
  ELSE IF Len(rels) = 1
    THEN AddEdge(G, rels[1][1], rels[1][2], [target |-> rels[1][3]])
  ELSE CHOOSE H \in {AddEdgesArgsSwapped(mid, SubSeq(rels, Len(rels) \div 2 + 1, Len(rels))) :
                      mid \in {AddEdgesArgsSwapped(G, SubSeq(rels, 1, Len(rels) \div 2))}} : TRUE

RECURSIVE AddEdges(_, _)
\* for source, relation, target in relationships:
\*     self.graph.add_edge(source, target, relation=relation)
AddEdges(G, rels) ==
  IF Len(rels) = 0 THEN G
  ELSE IF Len(rels) = 1
    THEN AddEdge(G, rels[1][1], rels[1][3], [relation |-> rels[1][2]])
  ELSE CHOOSE H \in {AddEdges(mid, SubSeq(rels, Len(rels) \div 2 + 1, Len(rels))) :
                      mid \in {AddEdges(G, SubSeq(rels, 1, Len(rels) \div 2))}} : TRUE

\* _initialize_cskg over the catalogue cat
InitializeCskg(G, cat) == AddEdges(AddNodes(G, cat.entities), cat.relationships)

(***************************************************************************)
(* The queries of CybersecurityKnowledgeGraph.                             *)
(***************************************************************************)
NodeTypes == <<"threat", "vulnerability", "mitigation", "attack_pattern">>

\* mutant of DirectTier: the direct loop skips a neighbor already in visited,
\* which drops the self loop entity -> entity
DirectTierSkipsVisited(G, entity) ==
  LET hits == SelectSeq(Neighbors(G, entity), LAMBDA n : n # entity)
  IN  [i \in 1..Len(hits) |->
         [entity     |-> hits[i],
          relation   |-> Get(GetEdgeData(G, entity, hits[i]), "relation", "unknown"),
          attributes |-> G.attrs[hits[i]]]]

\* the records appended to related["direct"], one per neighbor of entity
DirectTier(G, entity) ==
  [i \in 1..Len(G.adj[entity]) |->
     LET neighbor == G.adj[entity][i].target
     IN  [entity     |-> neighbor,
          relation   |-> Get(GetEdgeData(G, entity, neighbor), "relation", "unknown"),
          attributes |-> G.attrs[neighbor]]]

\* visited after the loop over the direct relationships
VisitedAfterDirect(G, entity) == {entity} \cup Range(Neighbors(G, entity))

\* mutant of IndirectVia: every successor of the neighbor is reported
IndirectViaAll(G, neighbor, visited) ==
  LET hits == Neighbors(G, neighbor)
  IN  [j \in 1..Len(hits) |->
         [entity     |-> hits[j],
          via        |-> neighbor,
          relation   |-> Get(GetEdgeData(G, neighbor, hits[j]), "relation", "unknown"),
          attributes |-> G.attrs[hits[j]]]]

\* the records the inner loop appends for one depth-1 neighbor: its
\* successors that are not in visited, in adjacency order
IndirectVia(G, neighbor, visited) ==
  LET hits == SelectSeq(Neighbors(G, neighbor), LAMBDA s : s \notin visited)
  IN  [j \in 1..Len(hits) |->
         [entity     |-> hits[j],
          via        |-> neighbor,
          relation   |-> Get(GetEdgeData(G, neighbor, hits[j]), "relation", "unknown"),
          attributes |-> G.attrs[hits[j]]]]

\* The loop "for neighbor in list(visited - {entity})", taken in the order
\* `order` of that set.  The loop reads visited and never adds to it.
IndirectTier(G, order, visited) ==
  Concat([k \in 1..Len(order) |-> IndirectVia(G, order[k], visited)])

\* query_related_entities(entity, max_depth); order is the iteration order
\* of the set visited - {entity}
query_related_entities(G, entity, max_depth, order) ==
  IF ~HasNode(G, entity) THEN EmptyDict
  ELSE [direct   |-> DirectTier(G, entity),
        indirect |-> IF max_depth > 1
                       THEN IndirectTier(G, order, VisitedAfterDirect(G, entity))
                       ELSE <<>>]

\* the orders query_related_entities may iterate its depth-1 set in
RelatedOrders(G, entity) ==
  IF HasNode(G, entity) THEN Orders(VisitedAfterDirect(G, entity) \ {entity})
  ELSE {<<>>}

\* mutant of get_entity_context: no membership test, a bundle for every name
get_entity_context_NoTest(G, entity, order) ==
  [found      |-> TRUE,
   entity     |-> entity,
   attributes |-> Get(G.attrs, entity, EmptyDict),
   related    |-> query_related_entities(G, entity, 2, order)]

\* get_entity_context(entity): None is modelled by found = FALSE
get_entity_context(G, entity, order) ==
  IF ~HasNode(G, entity) THEN [found |-> FALSE]
  ELSE [found      |-> TRUE,
        entity     |-> entity,
        attributes |-> G.attrs[entity],
        related    |-> query_related_entities(G, entity, 2, order)]

\* mutant of MitigationRecord: the relation reported is always mitigates
MitigationRecordFixedLabel(G, node, threat) ==
  [mitigation    |-> node,
   path          |-> "direct",
   relation      |-> "mitigates",
   effectiveness |-> Get(G.attrs[node], "effectiveness", "unknown")]

\* the record find_mitigation_path appends for mitigation node `node`
MitigationRecord(G, node, threat) ==
  [mitigation    |-> node,
   path          |-> "direct",
   relation      |-> Get(GetEdgeData(G, node, threat), "relation", "unknown"),
   effectiveness |-> Get(G.attrs[node], "effectiveness", "unknown")]

\* mutant of IsMitigator: the edge is looked up from the threat to the node
IsMitigatorReversed(G, node, threat) ==
  /\ Get(G.attrs[node], "type", "None") = "mitigation"
  /\ node \in Range(Neighbors(G, threat))

\* the nodes find_mitigation_path reports: typed mitigation, with threat
\* among their neighbors
IsMitigator(G, node, threat) ==
  /\ Get(G.attrs[node], "type", "None") = "mitigation"
  /\ threat \in Range(Neighbors(G, node))

\* find_mitigation_path(threat)
find_mitigation_path(G, threat) ==
  IF ~HasNode(G, threat) THEN <<>>
  ELSE LET hits == SelectSeq(G.nodes, LAMBDA n : IsMitigator(G, n, threat))
       IN  [i \in 1..Len(hits) |-> MitigationRecord(G, hits[i], threat)]

\* get_all_entities_by_type(entity_type)
get_all_entities_by_type(G, entity_type) ==
  SelectSeq(G.nodes, LAMBDA n : Get(G.attrs[n], "type", "None") = entity_type)

\* export_to_dict(): {"id": node, **data} per node in node order, and
\* {"source": u, "target": v, **data} per edge, by source in node order and
\* then in adjacency order
export_to_dict(G) ==
  [nodes |-> [i \in 1..Len(G.nodes) |-> Update([id |-> G.nodes[i]], G.attrs[G.nodes[i]])],
   edges |-> Concat([i \in 1..Len(G.nodes) |->
                       [j \in 1..Len(G.adj[G.nodes[i]]) |->
                          Update([source |-> G.nodes[i], target |-> G.adj[G.nodes[i]][j].target],
                                 G.adj[G.nodes[i]][j].data)]])]

\* sum(dict(self.graph.degree()).values())
DegreeSum(G) == SumSeq([i \in 1..Len(G.nodes) |-> Degree(G, G.nodes[i])])

\* get_graph_statistics(): the quotient avg_degree is kept as the pair
\* numerator, denominator; the division raises on a graph without nodes
get_graph_statistics(G) ==
  IF NumberOfNodes(G) = 0
    THEN [raised |-> "ZeroDivisionError"]
    ELSE [raised     |-> "",
          num_nodes  |-> NumberOfNodes(G),
          num_edges  |-> NumberOfEdges(G),
          node_types |-> [t \in Range(NodeTypes) |-> Len(get_all_entities_by_type(G, t))],
          avg_degree |-> [num |-> DegreeSum(G), den |-> NumberOfNodes(G)]]


(***************************************************************************)
(* Text.  A Python string is modelled by the sequence of its characters    *)
(* where the code looks inside it (lower(), in).                           *)
(***************************************************************************)
\* the characters of the strings the model uses, one string of length 1 each
CharTable ==
  ("Malware" :> <<"M", "a", "l", "w", "a", "r", "e">>) @@
  ("Phishing" :> <<"P", "h", "i", "s", "h", "i", "n", "g">>) @@
  ("DDoS" :> <<"D", "D", "o", "S">>) @@
  ("SQL Injection" :> <<"S", "Q", "L", " ", "I", "n", "j", "e", "c", "t", "i", "o", "n">>) @@
  ("XSS" :> <<"X", "S", "S">>) @@
  ("Ransomware" :> <<"R", "a", "n", "s", "o", "m", "w", "a", "r", "e">>) @@
  ("Zero-Day" :> <<"Z", "e", "r", "o", "-", "D", "a", "y">>) @@
  ("Man-in-the-Middle" :> <<"M", "a", "n", "-", "i", "n", "-", "t", "h", "e", "-", "M", "i", "d", "d", "l", "e">>) @@
  ("Buffer Overflow" :> <<"B", "u", "f", "f", "e", "r", " ", "O", "v", "e", "r", "f", "l", "o", "w">>) @@
  ("Weak Authentication" :> <<"W", "e", "a", "k", " ", "A", "u", "t", "h", "e", "n", "t", "i", "c", "a", "t", "i", "o", "n">>) @@
  ("Unpatched Software" :> <<"U", "n", "p", "a", "t", "c", "h", "e", "d", " ", "S", "o", "f", "t", "w", "a", "r", "e">>) @@
  ("Misconfiguration" :> <<"M", "i", "s", "c", "o", "n", "f", "i", "g", "u", "r", "a", "t", "i", "o", "n">>) @@
  ("Insufficient Encryption" :> <<"I", "n", "s", "u", "f", "f", "i", "c", "i", "e", "n", "t", " ", "E", "n", "c", "r", "y", "p", "t", "i", "o", "n">>) @@
  ("Multi-Factor Authentication" :> <<"M", "u", "l", "t", "i", "-", "F", "a", "c", "t", "o", "r", " ", "A", "u", "t", "h", "e", "n", "t", "i", "c", "a", "t", "i", "o", "n">>) @@
  ("Patch Management" :> <<"P", "a", "t", "c", "h", " ", "M", "a", "n", "a", "g", "e", "m", "e", "n", "t">>) @@
  ("Input Validation" :> <<"I", "n", "p", "u", "t", " ", "V", "a", "l", "i", "d", "a", "t", "i", "o", "n">>) @@
  ("Encryption" :> <<"E", "n", "c", "r", "y", "p", "t", "i", "o", "n">>) @@
  ("Firewall" :> <<"F", "i", "r", "e", "w", "a", "l", "l">>) @@
  ("IDS/IPS" :> <<"I", "D", "S", "/", "I", "P", "S">>) @@
  ("Security Training" :> <<"S", "e", "c", "u", "r", "i", "t", "y", " ", "T", "r", "a", "i", "n", "i", "n", "g">>) @@
  ("Credential Stuffing" :> <<"C", "r", "e", "d", "e", "n", "t", "i", "a", "l", " ", "S", "t", "u", "f", "f", "i", "n", "g">>) @@
  ("Brute Force" :> <<"B", "r", "u", "t", "e", " ", "F", "o", "r", "c", "e">>) @@
  ("Session Hijacking" :> <<"S", "e", "s", "s", "i", "o", "n", " ", "H", "i", "j", "a", "c", "k", "i", "n", "g">>) @@
  ("Code Injection" :> <<"C", "o", "d", "e", " ", "I", "n", "j", "e", "c", "t", "i", "o", "n">>) @@
  ("Phishing is a threat" :> <<"P", "h", "i", "s", "h", "i", "n", "g", " ", "i", "s", " ", "a", " ", "t", "h", "r", "e", "a", "t">>) @@
  ("weak authentication" :> <<"w", "e", "a", "k", " ", "a", "u", "t", "h", "e", "n", "t", "i", "c", "a", "t", "i", "o", "n">>) @@
  ("Malware and Ransomware" :> <<"M", "a", "l", "w", "a", "r", "e", " ", "a", "n", "d", " ", "R", "a", "n", "s", "o", "m", "w", "a", "r", "e">>) @@
  ("insufficient encryption" :> <<"i", "n", "s", "u", "f", "f", "i", "c", "i", "e", "n", "t", " ", "e", "n", "c", "r", "y", "p", "t", "i", "o", "n">>) @@
  ("Phishing bypasses multi-factor authentication" :> <<"P", "h", "i", "s", "h", "i", "n", "g", " ", "b", "y", "p", "a", "s", "s", "e", "s", " ", "m", "u", "l", "t", "i", "-", "f", "a", "c", "t", "o", "r", " ", "a", "u", "t", "h", "e", "n", "t", "i", "c", "a", "t", "i", "o", "n">>) @@
  ("Which controls exist?" :> <<"W", "h", "i", "c", "h", " ", "c", "o", "n", "t", "r", "o", "l", "s", " ", "e", "x", "i", "s", "t", "?">>) @@
  ("Doc 1" :> <<"D", "o", "c", " ", "1">>) @@
  ("What is phishing?" :> <<"W", "h", "a", "t", " ", "i", "s", " ", "p", "h", "i", "s", "h", "i", "n", "g", "?">>) @@
  ("How to stop XSS?" :> <<"H", "o", "w", " ", "t", "o", " ", "s", "t", "o", "p", " ", "X", "S", "S", "?">>) @@
  ("A" :> <<"A">>) @@
  ("B" :> <<"B">>) @@
  ("C" :> <<"C">>) @@
  ("D" :> <<"D">>) @@
  ("E" :> <<"E">>) @@
  ("M" :> <<"M">>) @@
  ("NonExistentThreat" :> <<"N", "o", "n", "E", "x", "i", "s", "t", "e", "n", "t", "T", "h", "r", "e", "a", "t">>)

Chars(s) == CharTable[s]

LowerChar(c) ==
  CASE c = "A" -> "a"
    [] c = "B" -> "b"
    [] c = "C" -> "c"
    [] c = "D" -> "d"
    [] c = "E" -> "e"
    [] c = "F" -> "f"
    [] c = "H" -> "h"
    [] c = "I" -> "i"
    [] c = "L" -> "l"
    [] c = "M" -> "m"
    [] c = "N" -> "n"
    [] c = "O" -> "o"
    [] c = "P" -> "p"
    [] c = "Q" -> "q"
    [] c = "R" -> "r"
    [] c = "S" -> "s"
    [] c = "T" -> "t"
    [] c = "U" -> "u"
    [] c = "V" -> "v"
    [] c = "W" -> "w"
    [] c = "X" -> "x"
    [] c = "Z" -> "z"
    [] OTHER -> c

\* text.lower()
Lower(cs) == [i \in 1..Len(cs) |-> LowerChar(cs[i])]

\* needle in haystack, on character sequences
IsSubstring(needle, haystack) ==
  \E start \in 0..(Len(haystack) - Len(needle)) :
    \A i \in 1..Len(needle) : haystack[start + i] = needle[i]

(***************************************************************************)
(* The vector index (faiss.IndexFlatL2) and the embedding arrays.          *)
(* An optional field is the empty sequence for None, else <<value>>.       *)
(***************************************************************************)
None == <<>>

Some(x) == <<x>>

\* the coordinates and widths the embeddings of the model take
Coords == {0, 1}

Widths == {1, 2}

Vectors(w) == [1..w -> Coords]

\* doc_embeddings.shape[1]
Width(rows) == Len(rows[1])

\* the squared L2 distance IndexFlatL2 reports
Distance(a, b) == SumSeq([i \in 1..Len(a) |-> (a[i] - b[i]) * (a[i] - b[i])])

\* the distance faiss reports for a missing neighbor (the largest float32):
\* larger than every distance between vectors of the model
FltMax == 1 + SumSeq([i \in 1..Cardinality(Widths) |-> Cardinality(Coords) * Cardinality(Coords)])

\* faiss.IndexFlatL2(d)
IndexFlatL2(d) == [d |-> d, vecs |-> <<>>]

\* mutant of Nearer: farthest first
NearerDescending(index, q, j, i) ==
  \/ Distance(index.vecs[j], q) > Distance(index.vecs[i], q)
  \/ Distance(index.vecs[j], q) = Distance(index.vecs[i], q) /\ j < i

\* Whether stored vector j comes before stored vector i in the result of a
\* search for q: nearer first, equal distances in index order.
Nearer(index, q, j, i) ==
  \/ Distance(index.vecs[j], q) < Distance(index.vecs[i], q)
  \/ Distance(index.vecs[j], q) = Distance(index.vecs[i], q) /\ j < i

\* index.search(q, k): the k nearest stored vectors as (idx, distance),
\* idx counted from 0, nearest first; places beyond ntotal hold idx -1 and
\* the largest float
Search(index, q, k) ==
  LET n == Len(index.vecs)
      Place(i) == 1 + Cardinality({j \in 1..n : Nearer(index, q, j, i)})
      At(p) == CHOOSE i \in 1..n : Place(i) = p
  IN  [p \in 1..k |->
         IF p <= n
           THEN [idx |-> At(p) - 1, distance |-> Distance(index.vecs[At(p)], q)]
           ELSE [idx |-> -1, distance |-> FltMax]]

\* lst[idx] for a Python list and an index counted from 0, negative from
\* the end
PyIndex(lst, idx) == IF idx >= 0 THEN lst[idx + 1] ELSE lst[Len(lst) + idx + 1]

(***************************************************************************)
(* TraditionalRAG and AgenticGraphRAG: the vector-index operations, whose  *)
(* code is the same in both classes.                                       *)
(***************************************************************************)
Methods == {"Traditional RAG", "Agentic Graph RAG"}

\* __init__
NewEngine(method) ==
  [method |-> method, documents |-> <<>>, embeddings |-> None, index |-> None,
   dimension |-> None]

\* mutant of add_documents: a later batch of another width is cut or
\* zero-filled to the width of the first batch and added
add_documents_Coercing(eng, documents, enc) ==
  LET eng1 == [eng EXCEPT !.documents = @ \o documents]
  IN  IF enc.raised THEN [rag |-> eng1, raised |-> enc.error]
      ELSE IF eng1.embeddings = None
        THEN [rag |-> [eng1 EXCEPT !.embeddings = Some(enc.rows),
                                   !.dimension = Some(Width(enc.rows)),
                                   !.index = Some([d |-> Width(enc.rows), vecs |-> enc.rows])],
              raised |-> ""]
      ELSE LET d == eng1.index[1].d
               rows == [r \in 1..Len(enc.rows) |->
                          [i \in 1..d |-> IF i <= Width(enc.rows) THEN enc.rows[r][i] ELSE 0]]
           IN  [rag |-> [eng1 EXCEPT !.embeddings = Some(@[1] \o rows),
                                     !.index = Some([@[1] EXCEPT !.vecs = @ \o rows])],
                raised |-> ""]

\* mutant of add_documents: the batch is put in front of the stored documents
add_documents_Prepending(eng, documents, enc) ==
  LET eng1 == [eng EXCEPT !.documents = documents \o @]
  IN  IF enc.raised THEN [rag |-> eng1, raised |-> enc.error]
      ELSE IF eng1.embeddings = None
        THEN [rag |-> [eng1 EXCEPT !.embeddings = Some(enc.rows),
                                   !.dimension = Some(Width(enc.rows)),
                                   !.index = Some([d |-> Width(enc.rows), vecs |-> enc.rows])],
              raised |-> ""]
      ELSE IF Width(enc.rows) # Width(eng1.embeddings[1])
        THEN [rag |-> eng1, raised |-> "ValueError"]
      ELSE LET eng2 == [eng1 EXCEPT !.embeddings = Some(enc.rows \o @[1])]
           IN  IF Width(enc.rows) # eng2.index[1].d
                 THEN [rag |-> eng2, raised |-> "AssertionError"]
                 ELSE [rag |-> [eng2 EXCEPT !.index = Some([@[1] EXCEPT !.vecs = enc.rows \o @])],
                       raised |-> ""]

\* add_documents(documents).  enc is what self.encoder.encode(documents)
\* does: it raises, or returns one row per document, all of one width.
\* The document list is extended before anything else; np.vstack raises
\* ValueError when the widths differ, index.add asserts the index's width.
\* The result is the engine after the call and the error raised ("" none).
add_documents(eng, documents, enc) ==
  LET eng1 == [eng EXCEPT !.documents = @ \o documents]
  IN  IF enc.raised THEN [rag |-> eng1, raised |-> enc.error]
      ELSE IF eng1.embeddings = None
        THEN [rag |-> [eng1 EXCEPT !.embeddings = Some(enc.rows),
                                   !.dimension = Some(Width(enc.rows)),
                                   !.index = Some([d |-> Width(enc.rows), vecs |-> enc.rows])],
              raised |-> ""]
      ELSE IF Width(enc.rows) # Width(eng1.embeddings[1])
        THEN [rag |-> eng1, raised |-> "ValueError"]
      ELSE LET eng2 == [eng1 EXCEPT !.embeddings = Some(@[1] \o enc.rows)]
           IN  IF Width(enc.rows) # eng2.index[1].d
                 THEN [rag |-> eng2, raised |-> "AssertionError"]
                 ELSE [rag |-> [eng2 EXCEPT !.index = Some([@[1] EXCEPT !.vecs = @ \o enc.rows])],
                       raised |-> ""]

\* float(1 / (1 + distance)), kept as numerator and denominator
Similarity(distance) == [num |-> 1, den |-> 1 + distance]

\* the loop of retrieve over zip(indices[0], distances[0]): found[i] is
\* appended, with rank i, when its idx is below len(self.documents)
Results(eng, found) ==
  LET kept == SelectSeq([i \in 1..Len(found) |-> [i |-> i, hit |-> found[i]]],
                        LAMBDA x : x.hit.idx < Len(eng.documents))
  IN  [j \in 1..Len(kept) |->
         [rank       |-> kept[j].i,
          document   |-> PyIndex(eng.documents, kept[j].hit.idx),
          score      |-> kept[j].hit.distance,
          similarity |-> Similarity(kept[j].hit.distance)]]

\* retrieve(query, top_k); q is self.encoder.encode([query]).  The search
\* asserts that q has the index's width.
retrieve(eng, q, top_k) ==
  IF eng.index = None \/ Len(eng.documents) = 0 THEN [raised |-> "", result |-> <<>>]
  ELSE IF Len(q) # eng.index[1].d THEN [raised |-> "AssertionError"]
  ELSE [raised |-> "",
        result |-> Results(eng, Search(eng.index[1], q, Min(top_k, Len(eng.documents))))]

(***************************************************************************)
(* AgenticGraphRAG: entity extraction and context expansion.               *)
(***************************************************************************)
\* mutant of Mentions: the comparison keeps the case of both strings
MentionsCaseSensitive ==
  [text \in DOMAIN CharTable |->
     {name \in DOMAIN CharTable : IsSubstring(Chars(name), Chars(text))}]

\* name.lower() in text.lower(), for the strings of the model
Mentions ==
  [text \in DOMAIN CharTable |->
     {name \in DOMAIN CharTable : IsSubstring(Lower(Chars(name)), Lower(Chars(text)))}]

\* _extract_entities(text): the nodes whose lowercase name occurs in the
\* lowercase text, in node order
extract_entities(G, text) ==
  SelectSeq(G.nodes, LAMBDA node : node \in Mentions[text])

\* mutant of EntitySet: the retrieved documents are not looked at
EntitySetQueryOnly(G, query, retrieved_docs) ==
  Range(extract_entities(G, query))

\* set(query_entities + list(doc_entities))
EntitySet(G, query, retrieved_docs) ==
  Range(extract_entities(G, query))
    \cup UNION {Range(extract_entities(G, retrieved_docs[i].document)) :
                  i \in 1..Len(retrieved_docs)}

\* the type _expand_with_kg branches on: nodes.get(entity, {}).get("type")
EntityType(G, entity) == Get(Get(G.attrs, entity, EmptyDict), "type", "None")

\* mutant of expand_with_kg: a mitigation record is listed once
expand_with_kg_Dedup(G, all_entities, relOrders) ==
  LET all == Concat([i \in 1..Len(all_entities) |->
                       IF EntityType(G, all_entities[i]) = "threat"
                         THEN find_mitigation_path(G, all_entities[i]) ELSE <<>>])
      keep == {i \in 1..Len(all) : \A j \in 1..(i - 1) : all[j] # all[i]}
      Nth(k) == CHOOSE i \in keep : Cardinality({j \in keep : j < i}) = k - 1
  IN  [identified_entities |-> all_entities,
       entity_contexts |->
         [e \in {x \in Range(all_entities) : get_entity_context(G, x, relOrders[x]).found} |->
            get_entity_context(G, e, relOrders[e])],
       mitigations |-> [k \in 1..Cardinality(keep) |-> all[Nth(k)]],
       related_threats |->
         SelectSeq(all_entities, LAMBDA e : EntityType(G, e) = "threat"),
       vulnerabilities |->
         SelectSeq(all_entities, LAMBDA e : EntityType(G, e) = "vulnerability")]

\* mutant of expand_with_kg: a context is recorded for threats only
expand_with_kg_ThreatContexts(G, all_entities, relOrders) ==
  [identified_entities |-> all_entities,
   entity_contexts |->
     [e \in {x \in Range(all_entities) :
               /\ get_entity_context(G, x, relOrders[x]).found
               /\ EntityType(G, x) = "threat"} |->
        get_entity_context(G, e, relOrders[e])],
   mitigations |->
     Concat([i \in 1..Len(all_entities) |->
               IF EntityType(G, all_entities[i]) = "threat"
                 THEN find_mitigation_path(G, all_entities[i]) ELSE <<>>]),
   related_threats |->
     SelectSeq(all_entities, LAMBDA e : EntityType(G, e) = "threat"),
   vulnerabilities |->
     SelectSeq(all_entities, LAMBDA e : EntityType(G, e) = "vulnerability")]

\* _expand_with_kg(query, retrieved_docs).  all_entities is the entity set
\* in the order list(set(...)) yields; relOrders gives, per entity, the
\* order get_entity_context iterates its depth-1 set in.
expand_with_kg(G, all_entities, relOrders) ==
  [identified_entities |-> all_entities,
   entity_contexts |->
     [e \in {x \in Range(all_entities) : get_entity_context(G, x, relOrders[x]).found} |->
        get_entity_context(G, e, relOrders[e])],
   mitigations |->
     Concat([i \in 1..Len(all_entities) |->
               IF EntityType(G, all_entities[i]) = "threat"
                 THEN find_mitigation_path(G, all_entities[i]) ELSE <<>>]),
   related_threats |->
     SelectSeq(all_entities, LAMBDA e : EntityType(G, e) = "threat"),
   vulnerabilities |->
     SelectSeq(all_entities, LAMBDA e : EntityType(G, e) = "vulnerability")]

RECURSIVE RelOrderChoices(_, _)
\* the choices of relOrders for the entities of S
RelOrderChoices(G, S) ==
  IF S = {} THEN {EmptyDict}
  ELSE LET e == CHOOSE x \in S : TRUE
       IN  {(e :> order) @@ rest :
              order \in RelatedOrders(G, e), rest \in RelOrderChoices(G, S \ {e})}

\* the bundles _expand_with_kg may return for a query and retrieved documents
KgContexts(G, query, retrieved_docs) ==
  LET S == EntitySet(G, query, retrieved_docs)
  IN  {expand_with_kg(G, all_entities, relOrders) :
         all_entities \in Orders(S), relOrders \in RelOrderChoices(G, S)}

(***************************************************************************)
(* generate_response of both engines.  llm is what the call of the LLM     *)
(* client does: it returns a text or raises an error with a message.  An   *)
(* f-string is the sequence of its parts.                                  *)
(***************************************************************************)
\* mutant of Answer: the placeholder leaves the error message out
AnswerWithoutMessage(llm) ==
  IF llm.raised THEN <<"Error generating response">> ELSE <<llm.text>>

\* the answer after the try block: the text the LLM returned, or
\* f"Error generating response: {str(e)}"
Answer(llm) ==
  IF llm.raised THEN <<"Error generating response: ", llm.msg>> ELSE <<llm.text>>

\* the context block of TraditionalRAG's prompt
TraditionalContext(retrieved_docs) ==
  IF retrieved_docs = <<>> THEN <<"No relevant information found.">>
  ELSE [i \in 1..Len(retrieved_docs) |->
          <<"[Document ", ToString(retrieved_docs[i].rank), "]: ", retrieved_docs[i].document>>]

\* the prompt of TraditionalRAG.generate_response
TraditionalPrompt(query, retrieved_docs) ==
  [instruction |-> "Based on the following context, answer the question.",
   context     |-> TraditionalContext(retrieved_docs),
   question    |-> <<"Question: ", query>>]

\* TraditionalRAG.generate_response after a retrieve that returned
TraditionalResponse(query, retrieved_docs, llm) ==
  [query               |-> query,
   answer              |-> Answer(llm),
   retrieved_documents |-> retrieved_docs,
   num_retrieved       |-> Len(retrieved_docs),
   method              |-> "Traditional RAG"]

\* AgenticGraphRAG.generate_response after a retrieve that returned
AgenticResponse(query, retrieved_docs, kg_context, llm) ==
  [query               |-> query,
   answer              |-> Answer(llm),
   retrieved_documents |-> retrieved_docs,
   kg_context          |-> kg_context,
   num_retrieved       |-> Len(retrieved_docs),
   num_kg_entities     |-> Len(Get(kg_context, "identified_entities", <<>>)),
   method              |-> "Agentic Graph RAG"]

RECURSIVE Join(_, _)
\* sep.join(parts), as the sequence of the parts and the separators
Join(parts, sep) ==
  IF Len(parts) <= 1 THEN Concat(parts)
  ELSE Head(parts) \o <<sep>> \o Join(Tail(parts), sep)

\* mutant of Take: the slice keeps the whole list
TakeAll(seq, n) == seq

\* seq[:n]
Take(seq, n) == SubSeq(seq, 1, Min(n, Len(seq)))

\* the lines _create_enhanced_prompt appends for one identified entity
EntityLines(kg_context, entity) ==
  IF entity \notin DOMAIN kg_context.entity_contexts THEN <<>>
  ELSE LET entity_context == kg_context.entity_contexts[entity]
           attrs == entity_context.attributes
           direct == Take(entity_context.related.direct, 3)
       IN  << <<"- ", entity, " (", Get(attrs, "type", "unknown"), "): ",
                Get(attrs, "description", "No description")>> >>
           \o (IF entity_context.related.direct = <<>> THEN <<>>
               ELSE << <<"  Related: ">>
                       \o Join([i \in 1..Len(direct) |->
                                  <<direct[i].relation, " ", direct[i].entity>>], ", ") >>)

\* _create_enhanced_prompt(query, retrieved_docs, kg_context): the lines of
\* the prompt, each the sequence of its parts
create_enhanced_prompt(query, retrieved_docs, kg_context) ==
  LET identified == Get(kg_context, "identified_entities", <<>>)
      found == Take(Get(kg_context, "mitigations", <<>>), 3)
  IN  << <<"Based on the following information, answer the question:\n">> >>
      \o (IF retrieved_docs = <<>> THEN <<>>
          ELSE << <<"Retrieved Context:">> >>
               \o [i \in 1..Len(retrieved_docs) |->
                     <<"[Document ", ToString(retrieved_docs[i].rank), "]: ",
                       retrieved_docs[i].document>>]
               \o << <<"">> >>)
      \o (IF identified = <<>> THEN <<>>
          ELSE << <<"Knowledge Graph Context:">> >>
               \o Concat([i \in 1..Len(identified) |-> EntityLines(kg_context, identified[i])])
               \o << <<"">> >>
               \o (IF found = <<>> THEN <<>>
                   ELSE << <<"Recommended Mitigations:">> >>
                        \o [i \in 1..Len(found) |->
                              <<"- ", found[i].mitigation, " (effectiveness: ",
                                found[i].effectiveness, ")">>]
                        \o << <<"">> >>))
      \o << <<"Question: ", query, "\n">>,
            <<"Answer (provide a comprehensive response using both retrieved documents and knowledge graph information):">> >>

(***************************************************************************)
(* The bounded family of catalogues: a prefix of entityPool and up to      *)
(* MaxRels tuples of relationshipPool, in pool order.  The pool holds a    *)
(* diamond A -> {B, C} -> D, a pair listed under two relations, a tuple     *)
(* listed twice, a self loop, a cycle, and a renamed type.                 *)
(***************************************************************************)
entityPool ==
  << <<"A", [type |-> "threat", severity |-> "high", description |-> "a"]>>,
     <<"M", [type |-> "mitigation", effectiveness |-> "high", description |-> "m"]>>,
     <<"B", [type |-> "vulnerability", cvss |-> "7.0", description |-> "b"]>>,
     <<"C", [type |-> "attack_pattern", description |-> "c"]>>,
     <<"A", [type |-> "mitigation", effectiveness |-> "medium"]>>,
     <<"D", [type |-> "threat", severity |-> "critical", description |-> "d"]>>,
     <<"E", [type |-> "mitigation", description |-> "e"]>> >>

relationshipPool ==
  << <<"A", "exploits", "B">>,
     <<"A", "uses", "C">>,
     <<"B", "exploits", "D">>,
     <<"C", "uses", "D">>,
     <<"M", "mitigates", "A">>,
     <<"A", "mitigates", "B">>,
     <<"D", "mitigates", "A">>,
     <<"A", "exploits", "A">>,
     <<"M", "addresses", "B">>,
     <<"A", "exploits", "B">> >>

RECURSIVE Pick(_, _, _)
\* the entries of pool whose index is in I, in pool order, from index i on
Pick(pool, I, i) ==
  IF i > Len(pool) THEN <<>>
  ELSE (IF i \in I THEN <<pool[i]>> ELSE <<>>) \o Pick(pool, I, i + 1)

Catalogues ==
  {[entities |-> SubSeq(entityPool, 1, n), relationships |-> Pick(relationshipPool, I, 1)] :
     n \in 0..Min(MaxEntities, Len(entityPool)),
     I \in {J \in SUBSET (1..Len(relationshipPool)) : Cardinality(J) <= MaxRels}}

\* the names a caller asks about: those of the catalogue and one that is in
\* no catalogue
CatalogueNames(cat) ==
  {cat.entities[i][1] : i \in 1..Len(cat.entities)}
    \cup {cat.relationships[i][1] : i \in 1..Len(cat.relationships)}
    \cup {cat.relationships[i][3] : i \in 1..Len(cat.relationships)}

QueryNames == CatalogueNames(catalogue) \cup {"NonExistentThreat"}

Depths == 1..MaxDepth

NoCall == [op |-> "none"]

NoEngine == [method |-> "none"]

NoRunner == [pc |-> "none"]

NoEngines == [heap |-> <<>>]

NoEvaluation == [op |-> "none"]

(***************************************************************************)
(* The knowledge graph as a state machine.                                 *)
(***************************************************************************)
\* CybersecurityKnowledgeGraph.__init__ up to self.graph = nx.DiGraph()
KGInit(cats) ==
  /\ catalogue \in cats
  /\ graph = DiGraph
  /\ phase = "new"
  /\ call = NoCall
  /\ rag = NoEngine
  /\ ret = NoCall
  /\ runner = NoRunner
  /\ engines = NoEngines
  /\ evaluation = NoEvaluation

\* __init__ calls self._initialize_cskg()
Construct ==
  /\ phase = "new"
  /\ graph' = InitializeCskg(graph, catalogue)
  /\ phase' = "ready"
  /\ UNCHANGED <<catalogue, call, rag, ret, runner, engines, evaluation>>

QueryRelatedEntities ==
  /\ phase = "ready"
  /\ call.op = "none"
  /\ \E entity \in QueryNames, max_depth \in Depths :
       \E order \in RelatedOrders(graph, entity) :
         call' = [op |-> "query_related_entities", entity |-> entity,
                  max_depth |-> max_depth,
                  result |-> query_related_entities(graph, entity, max_depth, order)]
  /\ UNCHANGED <<catalogue, graph, phase, rag, ret, runner, engines, evaluation>>

\* mutant of GetEntityContext: a name that is asked about becomes a node
GetEntityContextAddsNode ==
  /\ phase = "ready"
  /\ call.op = "none"
  /\ \E entity \in QueryNames :
       \E order \in RelatedOrders(graph, entity) :
         /\ call' = [op |-> "get_entity_context", entity |-> entity,
                     result |-> get_entity_context(graph, entity, order)]
         /\ graph' = AddNode(graph, entity, EmptyDict)
  /\ UNCHANGED <<catalogue, phase, rag, ret, runner, engines, evaluation>>

GetEntityContext ==
  /\ phase = "ready"
  /\ call.op = "none"
  /\ \E entity \in QueryNames :
       \E order \in RelatedOrders(graph, entity) :
         call' = [op |-> "get_entity_context", entity |-> entity,
                  result |-> get_entity_context(graph, entity, order)]
  /\ UNCHANGED <<catalogue, graph, phase, rag, ret, runner, engines, evaluation>>

FindMitigationPath ==
  /\ phase = "ready"
  /\ call.op = "none"
  /\ \E threat \in QueryNames :
       call' = [op |-> "find_mitigation_path", threat |-> threat,
                result |-> find_mitigation_path(graph, threat)]
  /\ UNCHANGED <<catalogue, graph, phase, rag, ret, runner, engines, evaluation>>

GetAllEntitiesByType ==
  /\ phase = "ready"
  /\ call.op = "none"
  /\ \E entity_type \in Range(NodeTypes) \cup {"None"} :
       call' = [op |-> "get_all_entities_by_type", entity_type |-> entity_type,
                result |-> get_all_entities_by_type(graph, entity_type)]
  /\ UNCHANGED <<catalogue, graph, phase, rag, ret, runner, engines, evaluation>>

\* what the caller holds of the call before this one, when that was a call
\* of the same observer: its result, else nothing
Previous(op) ==
  IF "last" \in DOMAIN call /\ call.last.op = op THEN Some(call.last.result) ELSE None

\* mutant of GetGraphStatistics: the call leaves a node of its own in the graph
GetGraphStatisticsAddsNode ==
  /\ phase = "ready"
  /\ call.op = "none"
  /\ call' = [op |-> "get_graph_statistics", result |-> get_graph_statistics(graph),
              previous |-> Previous("get_graph_statistics")]
  /\ graph' = AddNode(graph, "NonExistentThreat", EmptyDict)
  /\ UNCHANGED <<catalogue, phase, rag, ret, runner, engines, evaluation>>

GetGraphStatistics ==
  /\ phase = "ready"
  /\ call.op = "none"
  /\ call' = [op |-> "get_graph_statistics", result |-> get_graph_statistics(graph),
              previous |-> Previous("get_graph_statistics")]
  /\ UNCHANGED <<catalogue, graph, phase, rag, ret, runner, engines, evaluation>>

ExportToDict ==
  /\ phase = "ready"
  /\ call.op = "none"
  /\ call' = [op |-> "export_to_dict", result |-> export_to_dict(graph),
              previous |-> Previous("export_to_dict")]
  /\ UNCHANGED <<catalogue, graph, phase, rag, ret, runner, engines, evaluation>>

\* the observers whose result the caller keeps for its next call
Observers == {"get_graph_statistics", "export_to_dict"}

\* the query returns to its caller, which may call again
KGReturn ==
  /\ call.op # "none"
  /\ call' = IF call.op \in Observers
               THEN [op |-> "none", last |-> [op |-> call.op, result |-> call.result]]
               ELSE NoCall
  /\ UNCHANGED <<catalogue, graph, phase, rag, ret, runner, engines, evaluation>>

KGNext ==
  \/ Construct
  \/ KGReturn
  \/ QueryRelatedEntities
  \/ GetEntityContext
  \/ FindMitigationPath
  \/ GetAllEntitiesByType
  \/ GetGraphStatistics
  \/ ExportToDict

Init == KGInit(Catalogues)

Next == KGNext

Spec == Init /\ [][Next]_vars

SeedInit == KGInit({SeedCatalogue})

SpecSeed == SeedInit /\ [][Next]_vars


(***************************************************************************)
(* One retrieval engine as a state machine.  The Agentic engine's graph is *)
(* the one its constructor builds from the seed catalogue.                 *)
(***************************************************************************)
MaxDocs == 2
MaxBatch == 2
MaxTopK == 2

\* the documents and queries of the model
DocTexts == {"Phishing is a threat", "Doc 1"}

Queries == {"What is phishing?", "How to stop XSS?"}

Batches == UNION {[1..n -> DocTexts] : n \in 1..MaxBatch}

\* what self.encoder.encode(documents) may do
EncodeOutcomes(documents) ==
  {[raised |-> TRUE, error |-> "RuntimeError"]}
    \cup {[raised |-> FALSE, rows |-> rows] :
            rows \in UNION {[1..Len(documents) -> Vectors(w)] : w \in Widths}}

\* what self.encoder.encode([query]) may return
QueryVectors == UNION {Vectors(w) : w \in Widths}

TopKs == 1..MaxTopK

\* what the call of the LLM client may do
LLMOutcomes ==
  {[raised |-> FALSE, text |-> "Phishing is a social engineering attack."],
   [raised |-> TRUE, msg |-> "Rate limit exceeded"]}

RAGInit ==
  /\ catalogue = SeedCatalogue
  /\ graph = InitializeCskg(DiGraph, SeedCatalogue)
  /\ phase = "ready"
  /\ call = NoCall
  /\ rag \in {NewEngine(method) : method \in Methods}
  /\ ret = NoCall
  /\ runner = NoRunner
  /\ engines = NoEngines
  /\ evaluation = NoEvaluation

AddDocuments ==
  /\ ret = NoCall
  /\ \E documents \in Batches :
       /\ Len(rag.documents) + Len(documents) <= MaxDocs
       /\ \E enc \in EncodeOutcomes(documents) :
            LET out == add_documents(rag, documents, enc)
            IN  /\ rag' = out.rag
                /\ ret' = [op |-> "add_documents", documents |-> documents, enc |-> enc,
                           raised |-> out.raised]
  /\ UNCHANGED <<kgvars, runner, engines, evaluation>>

Retrieve ==
  /\ ret = NoCall
  /\ \E q \in QueryVectors, top_k \in TopKs :
       ret' = [op |-> "retrieve", q |-> q, top_k |-> top_k] @@ retrieve(rag, q, top_k)
  /\ UNCHANGED <<rag, catalogue, graph, phase, call, runner, engines, evaluation>>

\* generate_response: retrieve, (expand and) build the prompt, call the LLM.
\* An error of retrieve leaves the method before the LLM is called.
GenerateResponse ==
  /\ ret = NoCall
  /\ \E query \in Queries, q \in QueryVectors, top_k \in TopKs :
       LET got == retrieve(rag, q, top_k)
           args == [op |-> "generate_response", query |-> query, q |-> q, top_k |-> top_k]
       IN  IF got.raised # ""
             THEN ret' = args @@ [raised |-> got.raised, llm_called |-> FALSE]
             ELSE \E llm \in LLMOutcomes :
                    IF rag.method = "Traditional RAG"
                      THEN ret' = args @@
                             [raised |-> "", llm_called |-> TRUE, llm |-> llm,
                              prompt |-> TraditionalPrompt(query, got.result),
                              result |-> TraditionalResponse(query, got.result, llm)]
                      ELSE \E kg_context \in KgContexts(graph, query, got.result) :
                             ret' = args @@
                               [raised |-> "", llm_called |-> TRUE, llm |-> llm,
                                prompt |-> create_enhanced_prompt(query, got.result, kg_context),
                                result |-> AgenticResponse(query, got.result, kg_context, llm)]
  /\ UNCHANGED <<rag, catalogue, graph, phase, call, runner, engines, evaluation>>

\* the method returns (or raises) to its caller, which may call again
RAGReturn ==
  /\ ret # NoCall
  /\ ret' = NoCall
  /\ UNCHANGED <<rag, catalogue, graph, phase, call, runner, engines, evaluation>>

RAGNext ==
  \/ RAGReturn
  \/ AddDocuments
  \/ Retrieve
  \/ GenerateResponse

SpecRAG == RAGInit /\ [][RAGNext]_vars

(***************************************************************************)
(* The query-time operations on the seed graph, as a state machine with    *)
(* one caller: the queries of the knowledge graph, and of AgenticGraphRAG  *)
(* entity extraction, context expansion, prompt assembly and retrieve,     *)
(* applied to texts and retrieved documents of a small set.                *)
(***************************************************************************)
MaxRetrieved == 2

\* the queries and document texts the operations are applied to
ExpandQueries ==
  {"What is phishing?", "How to stop XSS?", "Malware and Ransomware", "Which controls exist?"}

ExpandDocs ==
  {"Phishing is a threat", "Doc 1", "weak authentication", "Patch Management",
   "insufficient encryption"}

ExtractTexts ==
  ExpandQueries \cup ExpandDocs \cup {"Phishing bypasses multi-factor authentication"}

\* lists of retrieved documents as retrieve builds them: rank i at place i
RetrievedLists ==
  UNION {{[i \in 1..n |-> [rank |-> i, document |-> texts[i], score |-> i - 1,
                            similarity |-> Similarity(i - 1)]] :
            texts \in [1..n -> ExpandDocs]} : n \in 0..MaxRetrieved}

\* an engine after add_documents of two documents
LoadedEngine ==
  add_documents(NewEngine("Agentic Graph RAG"),
                <<"Phishing is a threat", "weak authentication">>,
                [raised |-> FALSE, rows |-> << <<0, 1>>, <<1, 0>> >>]).rag

QueryInit ==
  /\ catalogue = SeedCatalogue
  /\ graph = InitializeCskg(DiGraph, SeedCatalogue)
  /\ phase = "ready"
  /\ call = NoCall
  /\ rag = LoadedEngine
  /\ ret = NoCall
  /\ runner = NoRunner
  /\ engines = NoEngines
  /\ evaluation = NoEvaluation

\* _extract_entities(text)
ExtractEntities ==
  /\ call.op = "none"
  /\ ret = NoCall
  /\ \E text \in ExtractTexts :
       ret' = [op |-> "extract_entities", text |-> text,
               result |-> extract_entities(graph, text)]
  /\ UNCHANGED <<rag, catalogue, graph, phase, call, runner, engines, evaluation>>

\* generate_response between retrieve and the LLM call:
\* kg_context = self._expand_with_kg(query, retrieved_docs);
\* prompt = self._create_enhanced_prompt(query, retrieved_docs, kg_context)
ExpandAndPrompt ==
  /\ call.op = "none"
  /\ ret = NoCall
  /\ \E query \in ExpandQueries, retrieved_docs \in RetrievedLists :
       \E kg_context \in KgContexts(graph, query, retrieved_docs) :
         ret' = [op |-> "expand_with_kg", query |-> query,
                 retrieved_docs |-> retrieved_docs, kg_context |-> kg_context,
                 prompt |-> create_enhanced_prompt(query, retrieved_docs, kg_context)]
  /\ UNCHANGED <<rag, catalogue, graph, phase, call, runner, engines, evaluation>>

QueryNext ==
  \/ KGReturn
  \/ RAGReturn
  \/ ret = NoCall /\ QueryRelatedEntities
  \/ ret = NoCall /\ GetEntityContext
  \/ ret = NoCall /\ FindMitigationPath
  \/ ret = NoCall /\ GetAllEntitiesByType
  \/ ret = NoCall /\ GetGraphStatistics
  \/ ret = NoCall /\ ExportToDict
  \/ ExtractEntities
  \/ ExpandAndPrompt
  \/ call.op = "none" /\ Retrieve

SpecQuery == QueryInit /\ [][QueryNext]_vars

(***************************************************************************)
(* run_experiment.py: LLMClientFactory.create_client, ExperimentRunner and *)
(* main.  The environment of a run says which client libraries can be      *)
(* imported and which API keys are set.  The engines an ExperimentRunner   *)
(* builds are its own; the run is modelled by the calls it makes on them.  *)
(***************************************************************************)
MaxQueries == 2

\* the provider names a caller may pass
ProviderChars ==
  ("openai" :> <<"o", "p", "e", "n", "a", "i">>) @@
  ("anthropic" :> <<"a", "n", "t", "h", "r", "o", "p", "i", "c">>) @@
  ("OpenAI" :> <<"O", "p", "e", "n", "A", "I">>) @@
  ("cohere" :> <<"c", "o", "h", "e", "r", "e">>)

Providers == DOMAIN ProviderChars

\* provider.lower()
LowerProvider(provider) ==
  CHOOSE p \in Providers : ProviderChars[p] = Lower(ProviderChars[provider])

\* OPENAI_AVAILABLE, ANTHROPIC_AVAILABLE and whether os.getenv gives a
\* non-empty OPENAI_API_KEY, ANTHROPIC_API_KEY
Environments ==
  [openai_available : BOOLEAN, anthropic_available : BOOLEAN,
   openai_key : BOOLEAN, anthropic_key : BOOLEAN]

\* LLMClientFactory.create_client(provider): the client, or the ValueError
create_client(provider, env) ==
  IF LowerProvider(provider) = "openai"
    THEN IF ~env.openai_available
           THEN [raised |-> "ValueError",
                 msg |-> <<"OpenAI library not installed. Install with: pip install openai">>]
         ELSE IF ~env.openai_key
           THEN [raised |-> "ValueError", msg |-> <<"OpenAI API key not provided">>]
         ELSE [raised |-> "", client |-> "OpenAI"]
  ELSE IF LowerProvider(provider) = "anthropic"
    THEN IF ~env.anthropic_available
           THEN [raised |-> "ValueError",
                 msg |-> <<"Anthropic library not installed. Install with: pip install anthropic">>]
         ELSE IF ~env.anthropic_key
           THEN [raised |-> "ValueError", msg |-> <<"Anthropic API key not provided">>]
         ELSE [raised |-> "", client |-> "Anthropic"]
  ELSE [raised |-> "ValueError", msg |-> <<"Unsupported provider: ", provider>>]

\* ExperimentRunner.__init__(llm_provider): the client it keeps and what it
\* prints; an error of create_client is caught
NewExperimentRunner(llm_provider, env) ==
  LET made == create_client(llm_provider, env)
  IN  IF made.raised = ""
        THEN [llm_client |-> Some(made.client),
              printed |-> << <<"Initialized ", llm_provider, " client">> >>]
        ELSE [llm_client |-> None,
              printed |-> << <<"Warning: Could not initialize LLM client: ">> \o made.msg,
                             <<"  Running in demo mode with mock responses">> >>]

\* the ways in: a call of create_client, the construction of an
\* ExperimentRunner, the command line (the only one with a --demo flag)
Entries == {"create_client", "ExperimentRunner", "main"}

RunnerStarts ==
  {[pc |-> "start", entry |-> entry, provider |-> provider, demo |-> demo, env |-> env,
    raised |-> "", llm_client |-> None, printed |-> <<>>, i |-> 0, log |-> <<>>,
    steps |-> <<>>] :
     entry \in Entries, provider \in Providers, env \in Environments,
     demo \in BOOLEAN}

RunnerInit ==
  /\ catalogue = SeedCatalogue
  /\ graph = DiGraph
  /\ phase = "new"
  /\ call = NoCall
  /\ rag = NoEngine
  /\ ret = NoCall
  /\ runner \in {r \in RunnerStarts : r.entry = "main" \/ ~r.demo}
  /\ engines = NoEngines
  /\ evaluation = NoEvaluation

\* LLMClientFactory.create_client(provider), called by itself
CreateClient ==
  /\ runner.pc = "start" /\ runner.entry = "create_client"
  /\ LET made == create_client(runner.provider, runner.env)
     IN  runner' = IF made.raised = ""
                     THEN [runner EXCEPT !.pc = "returned", !.llm_client = Some(made.client)]
                     ELSE [runner EXCEPT !.pc = "raised", !.raised = made.raised,
                                         !.printed = <<made.msg>>]
  /\ UNCHANGED <<kgvars, ragvars, engines, evaluation>>

\* ExperimentRunner(llm_provider=provider)
ConstructRunner ==
  /\ runner.pc = "start" /\ runner.entry = "ExperimentRunner"
  /\ LET new == NewExperimentRunner(runner.provider, runner.env)
     IN  runner' = [runner EXCEPT !.pc = "constructed", !.llm_client = new.llm_client,
                                  !.printed = new.printed]
  /\ UNCHANGED <<kgvars, ragvars, engines, evaluation>>

\* main(): argparse takes --provider from its choices only; --demo prints
\* a line; then the runner is constructed from provider and model
Main ==
  /\ runner.pc = "start" /\ runner.entry = "main"
  /\ IF runner.provider \notin {"openai", "anthropic"}
       THEN runner' = [runner EXCEPT !.pc = "raised", !.raised = "SystemExit"]
       ELSE LET banner == IF runner.demo
                            THEN << <<"Running in DEMO mode (no LLM API calls)\n">> >>
                            ELSE <<>>
                new == NewExperimentRunner(runner.provider, runner.env)
            IN  runner' = [runner EXCEPT !.pc = "constructed",
                                         !.llm_client = new.llm_client,
                                         !.printed = banner \o new.printed]
  /\ UNCHANGED <<kgvars, ragvars, engines, evaluation>>

\* run_full_experiment() enters run_traditional_rag()
RunFullExperiment ==
  /\ runner.pc = "constructed"
  /\ runner' = [runner EXCEPT !.pc = "traditional", !.i = 1]
  /\ UNCHANGED <<kgvars, ragvars, engines, evaluation>>

\* the call one pass of the query loop makes on its engine
QueryCall(engine, r) ==
  [engine |-> engine, query |-> r.i,
   call |-> IF r.llm_client # None THEN "generate_response" ELSE "retrieve",
   response |-> IF r.llm_client # None THEN "answer" ELSE "[Demo Response]"]

\* one pass of the loop of run_traditional_rag
RunTraditionalRag ==
  /\ runner.pc = "traditional"
  /\ runner' = IF runner.i < MaxQueries
                 THEN [runner EXCEPT !.log = Append(@, QueryCall("Traditional RAG", runner)),
                                     !.i = @ + 1]
                 ELSE [runner EXCEPT !.log = Append(@, QueryCall("Traditional RAG", runner)),
                                     !.i = 1, !.pc = "agentic"]
  /\ UNCHANGED <<kgvars, ragvars, engines, evaluation>>

\* one pass of the loop of run_agentic_graph_rag
RunAgenticGraphRag ==
  /\ runner.pc = "agentic"
  /\ runner' = IF runner.i < MaxQueries
                 THEN [runner EXCEPT !.log = Append(@, QueryCall("Agentic Graph RAG", runner)),
                                     !.i = @ + 1]
                 ELSE [runner EXCEPT !.log = Append(@, QueryCall("Agentic Graph RAG", runner)),
                                     !.i = 0, !.pc = "ran"]
  /\ UNCHANGED <<kgvars, ragvars, engines, evaluation>>

\* the keys of the dict run_traditional_rag returns
TraditionalResultKeys ==
  {"method", "model", "responses", "retrieved_docs", "times", "evaluation"}

\* the keys of the dict run_agentic_graph_rag returns
AgenticResultKeys ==
  {"method", "model", "responses", "retrieved_docs", "times", "kg_entities", "evaluation"}

\* the keys compare_results subscripts in each of its two arguments
CompareReads == {"evaluation", "queries", "times"}

\* compare_results(trad_results, ag_results): the error it raises ("" none)
compare_results(trad_keys, ag_keys) ==
  IF CompareReads \subseteq trad_keys /\ CompareReads \subseteq ag_keys
    THEN "" ELSE "KeyError"

\* the rest of run_full_experiment after the two runs: compare_results,
\* save_results, return of the pair of results
FinishExperiment ==
  /\ runner.pc = "ran"
  /\ runner' =
       IF compare_results(TraditionalResultKeys, AgenticResultKeys) # ""
         THEN [runner EXCEPT !.pc = "raised",
                             !.raised = compare_results(TraditionalResultKeys, AgenticResultKeys),
                             !.steps = @ \o <<"compare_results">>]
         ELSE [runner EXCEPT !.pc = "returned",
                             !.steps = @ \o <<"compare_results", "save_results">>]
  /\ UNCHANGED <<kgvars, ragvars, engines, evaluation>>

RunnerNext ==
  \/ CreateClient
  \/ ConstructRunner
  \/ Main
  \/ RunFullExperiment
  \/ RunTraditionalRag
  \/ RunAgenticGraphRag
  \/ FinishExperiment

SpecRunner == RunnerInit /\ [][RunnerNext]_vars

(***************************************************************************)
(* run_multi_llm.py: run_multi_llm_experiments(providers_models).  Each    *)
(* pass of its loop constructs an ExperimentRunner and runs the full       *)
(* experiment, which are the actions above; the field multi of runner      *)
(* holds the list of configurations, the place of the pass and what the    *)
(* loop has collected.                                                     *)
(***************************************************************************)
MaxConfigs == 2

\* the lists of (provider, model) a caller may pass
ConfigLists ==
  UNION {[1..n -> {<<provider, "gpt-3.5-turbo">> : provider \in Providers}] :
           n \in 0..MaxConfigs}

\* the runner record at the top of pass k of the loop
PassStart(multi, env) ==
  [pc |-> "start", entry |-> "ExperimentRunner", provider |-> multi.configs[multi.k][1],
   demo |-> FALSE, env |-> env, raised |-> "", llm_client |-> None, printed |-> <<>>,
   i |-> 0, log |-> <<>>, steps |-> <<>>, multi |-> multi]

\* the runner record when the loop is over
LoopDone(multi, env) ==
  [pc |-> "done", entry |-> "run_multi_llm_experiments", provider |-> "",
   demo |-> FALSE, env |-> env, raised |-> "", llm_client |-> None, printed |-> <<>>,
   i |-> 0, log |-> <<>>, steps |-> <<>>, multi |-> multi]

\* the loop goes to its next pass, or ends
NextPass(multi, env) ==
  IF multi.k <= Len(multi.configs) THEN PassStart(multi, env) ELSE LoopDone(multi, env)

MultiInit ==
  /\ catalogue = SeedCatalogue
  /\ graph = DiGraph
  /\ phase = "new"
  /\ call = NoCall
  /\ rag = NoEngine
  /\ ret = NoCall
  /\ engines = NoEngines
  /\ evaluation = NoEvaluation
  /\ runner \in {NextPass([configs |-> configs, k |-> 1, all_results |-> <<>>, caught |-> <<>>],
                          env) :
                   configs \in ConfigLists, env \in Environments}

\* mutant of RunMultiNextConfig: an error of a pass ends the loop
RunMultiNextConfigStops ==
  /\ "multi" \in DOMAIN runner
  /\ runner.pc \in {"raised", "returned"}
  /\ LET m == runner.multi
         config == m.configs[m.k]
     IN  runner' =
           IF runner.pc = "returned"
             THEN NextPass([m EXCEPT !.k = @ + 1,
                                     !.all_results =
                                        Append(@, [provider |-> config[1], model |-> config[2]])],
                           runner.env)
             ELSE LoopDone([m EXCEPT !.caught = Append(@, [pass |-> m.k, error |-> runner.raised])],
                           runner.env)
  /\ UNCHANGED <<kgvars, ragvars, engines, evaluation>>

\* the end of a pass: run_full_experiment returned and the record of the
\* configuration is appended to all_results, or it raised and the except
\* clause prints the error and continues
RunMultiNextConfig ==
  /\ "multi" \in DOMAIN runner
  /\ runner.pc \in {"raised", "returned"}
  /\ LET m == runner.multi
         config == m.configs[m.k]
     IN  runner' =
           IF runner.pc = "returned"
             THEN NextPass([m EXCEPT !.k = @ + 1,
                                     !.all_results =
                                        Append(@, [provider |-> config[1], model |-> config[2]])],
                           runner.env)
             ELSE NextPass([m EXCEPT !.k = @ + 1,
                                     !.caught = Append(@, [pass |-> m.k, error |-> runner.raised])],
                           runner.env)
  /\ UNCHANGED <<kgvars, ragvars, engines, evaluation>>

MultiNext ==
  \/ ConstructRunner
  \/ RunFullExperiment
  \/ RunTraditionalRag
  \/ RunAgenticGraphRag
  \/ FinishExperiment
  \/ RunMultiNextConfig

SpecMulti == MultiInit /\ [][MultiNext]_vars

(***************************************************************************)
(* RAGEvaluator.  A text is the sequence of its words where the code       *)
(* splits it; a similarity is a whole number of hundredths; a mean is kept *)
(* as the pair sum, count, or as the list it is taken over.  The           *)
(* similarity the encoder gives a response and a ground truth is kept as   *)
(* the pair of the two texts.                                              *)
(***************************************************************************)
MaxBatchLen == 2

EvalQueries == <<"Query 1", "Query 2", "Query 3", "Query 4">>

EvalResponses == {<<"Response", "1">>, <<>>}

EvalGroundTruths == {<<"GT", "1">>, <<>>}

EvalRetrieved ==
  {<<>>, <<[document |-> "Doc", similarity |-> 70, rank |-> 1]>>}

EvalTimes == {10}

\* the lists of up to MaxBatchLen elements of S
ListsOf(S) == UNION {[1..n -> S] : n \in 0..MaxBatchLen}

\* evaluate_response(query, response, ground_truth, retrieved_docs)
evaluate_response(query, response, ground_truth, retrieved_docs) ==
  (IF ground_truth # <<>>
     THEN [semantic_similarity |-> <<response, ground_truth>>] ELSE EmptyDict)
  @@ [num_retrieved |-> Len(retrieved_docs)]
  @@ (IF retrieved_docs # <<>>
        THEN [avg_retrieval_score |->
                [sum |-> SumSeq([i \in 1..Len(retrieved_docs) |-> retrieved_docs[i].similarity]),
                 count |-> Len(retrieved_docs)],
              top_retrieval_score |-> retrieved_docs[1].similarity]
        ELSE EmptyDict)
  @@ [response_length |-> Len(response)]

\* len of zip(queries, responses, ground_truths, retrieved_docs_list)
ZipLen(queries, responses, ground_truths, retrieved_docs_list) ==
  Min(Min(Len(queries), Len(responses)), Min(Len(ground_truths), Len(retrieved_docs_list)))

\* evaluate_batch(queries, responses, ground_truths, retrieved_docs_list,
\* times): one record per tuple of the zip, and the aggregate
evaluate_batch(queries, responses, ground_truths, retrieved_docs_list, times) ==
  LET individual ==
        [i \in 1..ZipLen(queries, responses, ground_truths, retrieved_docs_list) |->
           evaluate_response(queries[i], responses[i], ground_truths[i],
                             retrieved_docs_list[i])]
  IN  [aggregated |->
         [num_queries |-> Len(queries),
          avg_semantic_similarity |->
            [over |-> [i \in 1..Len(individual) |->
                         Get(individual[i], "semantic_similarity", 0)]],
          avg_retrieval_score |->
            [over |-> [i \in 1..Len(individual) |->
                         Get(individual[i], "avg_retrieval_score", 0)]],
          avg_response_time |-> IF times # <<>> THEN [sum |-> SumSeq(times), count |-> Len(times)]
                                ELSE [sum |-> 0, count |-> 1],
          avg_num_retrieved |->
            [sum |-> SumSeq([i \in 1..Len(individual) |-> individual[i].num_retrieved]),
             count |-> Len(individual)],
          avg_response_length |->
            [sum |-> SumSeq([i \in 1..Len(individual) |-> individual[i].response_length]),
             count |-> Len(individual)],
          total_time |-> IF times # <<>> THEN SumSeq(times) ELSE 0],
       individual |-> individual]

EvalInit ==
  /\ catalogue = SeedCatalogue
  /\ graph = DiGraph
  /\ phase = "new"
  /\ call = NoCall
  /\ rag = NoEngine
  /\ ret = NoCall
  /\ runner = NoRunner
  /\ engines = NoEngines
  /\ evaluation = NoEvaluation

EvaluateResponse ==
  /\ evaluation = NoEvaluation
  /\ \E response \in EvalResponses, ground_truth \in EvalGroundTruths,
        retrieved_docs \in EvalRetrieved :
       evaluation' = [op |-> "evaluate_response", response |-> response,
                      ground_truth |-> ground_truth, retrieved_docs |-> retrieved_docs,
                      result |-> evaluate_response("Query 1", response, ground_truth,
                                                   retrieved_docs)]
  /\ UNCHANGED <<kgvars, ragvars, runner, engines>>

EvaluateBatch ==
  /\ evaluation = NoEvaluation
  /\ \E n \in 0..MaxBatchLen, responses \in ListsOf(EvalResponses),
        ground_truths \in ListsOf(EvalGroundTruths),
        retrieved_docs_list \in ListsOf(EvalRetrieved), times \in ListsOf(EvalTimes) :
       evaluation' = [op |-> "evaluate_batch", queries |-> SubSeq(EvalQueries, 1, n),
                      responses |-> responses, ground_truths |-> ground_truths,
                      retrieved_docs_list |-> retrieved_docs_list, times |-> times,
                      result |-> evaluate_batch(SubSeq(EvalQueries, 1, n), responses,
                                                ground_truths, retrieved_docs_list, times)]
  /\ UNCHANGED <<kgvars, ragvars, runner, engines>>

\* the method returns to its caller, which may call again
EvaluatorReturn ==
  /\ evaluation # NoEvaluation
  /\ evaluation' = NoEvaluation
  /\ UNCHANGED <<kgvars, ragvars, runner, engines>>

EvalNext ==
  \/ EvaluateResponse
  \/ EvaluateBatch
  \/ EvaluatorReturn

SpecEval == EvalInit /\ [][EvalNext]_vars

(***************************************************************************)
(* Two engine instances.  heap is the sequence of the objects made so far  *)
(* (document lists, indexes, graphs); an instance holds the places of its  *)
(* objects, as a Python object holds references.  list.extend and          *)
(* index.add change the object in place; self.embeddings is bound to a new *)
(* array by every add_documents.                                           *)
(***************************************************************************)
InstanceNames == {"a", "b"}

\* mutant of NewInstance: the document list and the graph are those of the
\* instance made first, when there is one
NewInstanceShared(heap, method) ==
  IF heap # <<>>
    THEN [heap |-> heap,
          inst |-> [method |-> method, documents |-> 1, embeddings |-> None,
                    index |-> None, dimension |-> None,
                    kg |-> IF method = "Agentic Graph RAG" /\ Len(heap) >= 2
                             THEN Some(2) ELSE None]]
  ELSE LET h1 == Append(heap, <<>>)
       IN  IF method = "Agentic Graph RAG"
             THEN [heap |-> Append(h1, InitializeCskg(DiGraph, SeedCatalogue)),
                   inst |-> [method |-> method, documents |-> Len(h1), embeddings |-> None,
                             index |-> None, dimension |-> None, kg |-> Some(Len(h1) + 1)]]
             ELSE [heap |-> h1,
                   inst |-> [method |-> method, documents |-> Len(h1), embeddings |-> None,
                             index |-> None, dimension |-> None, kg |-> None]]

\* __init__ of both engines: self.documents = [] is a new list, and
\* AgenticGraphRAG's self.kg = CybersecurityKnowledgeGraph() a new graph,
\* filled by _initialize_cskg
NewInstance(heap, method) ==
  LET h1 == Append(heap, <<>>)
  IN  IF method = "Agentic Graph RAG"
        THEN [heap |-> Append(h1, InitializeCskg(DiGraph, SeedCatalogue)),
              inst |-> [method |-> method, documents |-> Len(h1), embeddings |-> None,
                        index |-> None, dimension |-> None, kg |-> Some(Len(h1) + 1)]]
        ELSE [heap |-> h1,
              inst |-> [method |-> method, documents |-> Len(h1), embeddings |-> None,
                        index |-> None, dimension |-> None, kg |-> None]]

\* the engine an instance is: its fields, with the objects they refer to
Deref(heap, inst) ==
  [method |-> inst.method,
   documents |-> heap[inst.documents],
   embeddings |-> inst.embeddings,
   index |-> IF inst.index = None THEN None ELSE Some(heap[inst.index[1]]),
   dimension |-> inst.dimension]

\* self.kg.graph of an instance, when it has one
InstanceGraph(heap, inst) ==
  IF inst.kg = None THEN None ELSE Some(heap[inst.kg[1]])

\* the heap and the instance after a method left the instance as engine eng:
\* the list is changed in place, the index is changed in place or, when the
\* method made it, is a new object
Store(heap, inst, eng) ==
  LET h1 == [heap EXCEPT ![inst.documents] = eng.documents]
      fields == [inst EXCEPT !.embeddings = eng.embeddings, !.dimension = eng.dimension]
  IN  IF eng.index = None THEN [heap |-> h1, inst |-> fields]
      ELSE IF inst.index = None
        THEN [heap |-> Append(h1, eng.index[1]),
              inst |-> [fields EXCEPT !.index = Some(Len(h1) + 1)]]
      ELSE [heap |-> [h1 EXCEPT ![inst.index[1]] = eng.index[1]], inst |-> fields]

\* two instances made one after the other
TwoInstances(method_a, method_b) ==
  LET first == NewInstance(<<>>, method_a)
      second == NewInstance(first.heap, method_b)
  IN  [heap |-> second.heap, a |-> first.inst, b |-> second.inst,
       last |-> [op |-> "__init__"]]

InstancesInit ==
  /\ catalogue = SeedCatalogue
  /\ graph = DiGraph
  /\ phase = "new"
  /\ call = NoCall
  /\ rag = NoEngine
  /\ ret = NoCall
  /\ runner = NoRunner
  /\ engines \in {TwoInstances(method_a, method_b) : method_a \in Methods, method_b \in Methods}
  /\ evaluation = NoEvaluation

\* what the encoder of an instance does in this part of the model: it
\* raises, or gives every document the zero vector of one of the widths
InstanceEncodings(documents) ==
  {enc \in EncodeOutcomes(documents) :
     enc.raised \/ \A i \in 1..Len(enc.rows) : \A j \in 1..Width(enc.rows) : enc.rows[i][j] = 0}

\* x.add_documents(documents) on one of the instances
InstanceAddDocuments ==
  /\ \E x \in InstanceNames, documents \in Batches :
       /\ Len(engines.heap[engines[x].documents]) + Len(documents) <= MaxDocs
       /\ \E enc \in InstanceEncodings(documents) :
            LET out == add_documents(Deref(engines.heap, engines[x]), documents, enc)
                new == Store(engines.heap, engines[x], out.rag)
            IN  engines' = [engines EXCEPT !.heap = new.heap, ![x] = new.inst,
                                           !.last = [op |-> "add_documents", on |-> x,
                                                     raised |-> out.raised]]
  /\ UNCHANGED <<kgvars, ragvars, runner, evaluation>>

\* a caller adds a node to x.kg.graph, the public attribute of the graph
\* object of one instance
InstanceGraphAddNode ==
  /\ \E x \in InstanceNames :
       /\ engines[x].kg # None
       /\ ~HasNode(engines.heap[engines[x].kg[1]], "NonExistentThreat")
       /\ engines' = [engines EXCEPT !.heap[engines[x].kg[1]] =
                                        AddNode(@, "NonExistentThreat", EmptyDict),
                                     !.last = [op |-> "add_node", on |-> x]]
  /\ UNCHANGED <<kgvars, ragvars, runner, evaluation>>

InstancesNext ==
  \/ InstanceAddDocuments
  \/ InstanceGraphAddNode

SpecInstances == InstancesInit /\ [][InstancesNext]_vars

(***************************************************************************)
(* The vector-index operations of AgenticGraphRAG, from its own code, and  *)
(* the two engines run side by side: instance a is a TraditionalRAG,       *)
(* instance b an AgenticGraphRAG, every call is made on both with the same *)
(* arguments, and the encoder gives both the same embeddings.              *)
(***************************************************************************)
\* AgenticGraphRAG.add_documents(documents)
agentic_add_documents(eng, documents, enc) ==
  LET eng1 == [eng EXCEPT !.documents = @ \o documents]
  IN  IF enc.raised THEN [rag |-> eng1, raised |-> enc.error]
      ELSE IF eng1.embeddings = None
        THEN [rag |-> [eng1 EXCEPT !.embeddings = Some(enc.rows),
                                   !.dimension = Some(Width(enc.rows)),
                                   !.index = Some([d |-> Width(enc.rows), vecs |-> enc.rows])],
              raised |-> ""]
      ELSE IF Width(enc.rows) # Width(eng1.embeddings[1])
        THEN [rag |-> eng1, raised |-> "ValueError"]
      ELSE LET eng2 == [eng1 EXCEPT !.embeddings = Some(@[1] \o enc.rows)]
           IN  IF Width(enc.rows) # eng2.index[1].d
                 THEN [rag |-> eng2, raised |-> "AssertionError"]
                 ELSE [rag |-> [eng2 EXCEPT !.index = Some([@[1] EXCEPT !.vecs = @ \o enc.rows])],
                       raised |-> ""]

\* mutant of agentic_retrieve: the search asks for top_k places, whatever
\* the number of documents
agentic_retrieve_Unclamped(eng, q, top_k) ==
  IF eng.index = None \/ Len(eng.documents) = 0 THEN [raised |-> "", result |-> <<>>]
  ELSE IF Len(q) # eng.index[1].d THEN [raised |-> "AssertionError"]
  ELSE LET found == Search(eng.index[1], q, top_k)
           kept == SelectSeq([i \in 1..Len(found) |-> [i |-> i, hit |-> found[i]]],
                             LAMBDA x : x.hit.idx < Len(eng.documents))
       IN  [raised |-> "",
            result |-> [j \in 1..Len(kept) |->
                          [rank       |-> kept[j].i,
                           document   |-> PyIndex(eng.documents, kept[j].hit.idx),
                           score      |-> kept[j].hit.distance,
                           similarity |-> [num |-> 1, den |-> 1 + kept[j].hit.distance]]]]

\* AgenticGraphRAG.retrieve(query, top_k); q is the encoded query
agentic_retrieve(eng, q, top_k) ==
  IF eng.index = None \/ Len(eng.documents) = 0 THEN [raised |-> "", result |-> <<>>]
  ELSE IF Len(q) # eng.index[1].d THEN [raised |-> "AssertionError"]
  ELSE LET found == Search(eng.index[1], q, Min(top_k, Len(eng.documents)))
           kept == SelectSeq([i \in 1..Len(found) |-> [i |-> i, hit |-> found[i]]],
                             LAMBDA x : x.hit.idx < Len(eng.documents))
       IN  [raised |-> "",
            result |-> [j \in 1..Len(kept) |->
                          [rank       |-> kept[j].i,
                           document   |-> PyIndex(eng.documents, kept[j].hit.idx),
                           score      |-> kept[j].hit.distance,
                           similarity |-> [num |-> 1, den |-> 1 + kept[j].hit.distance]]]]

SideBySideInit ==
  /\ catalogue = SeedCatalogue
  /\ graph = DiGraph
  /\ phase = "new"
  /\ call = NoCall
  /\ rag = NoEngine
  /\ ret = NoCall
  /\ runner = NoRunner
  /\ engines = TwoInstances("Traditional RAG", "Agentic Graph RAG")
  /\ evaluation = NoEvaluation

\* add_documents(documents) on both engines
BothAddDocuments ==
  /\ \E documents \in Batches :
       /\ Len(engines.heap[engines.a.documents]) + Len(documents) <= MaxDocs
       /\ \E enc \in EncodeOutcomes(documents) :
            LET out_a == add_documents(Deref(engines.heap, engines.a), documents, enc)
                new_a == Store(engines.heap, engines.a, out_a.rag)
                out_b == agentic_add_documents(Deref(new_a.heap, engines.b), documents, enc)
                new_b == Store(new_a.heap, engines.b, out_b.rag)
            IN  engines' = [engines EXCEPT !.heap = new_b.heap, !.a = new_a.inst,
                                           !.b = new_b.inst,
                                           !.last = [op |-> "add_documents",
                                                     a |-> [raised |-> out_a.raised],
                                                     b |-> [raised |-> out_b.raised]]]
  /\ UNCHANGED <<kgvars, ragvars, runner, evaluation>>

\* retrieve(query, top_k) on both engines
BothRetrieve ==
  /\ \E q \in QueryVectors, top_k \in TopKs :
       engines' = [engines EXCEPT !.last =
                     [op |-> "retrieve", q |-> q, top_k |-> top_k,
                      a |-> retrieve(Deref(engines.heap, engines.a), q, top_k),
                      b |-> agentic_retrieve(Deref(engines.heap, engines.b), q, top_k)]]
  /\ UNCHANGED <<kgvars, ragvars, runner, evaluation>>

SideBySideNext ==
  \/ BothAddDocuments
  \/ BothRetrieve

SpecSideBySide == SideBySideInit /\ [][SideBySideNext]_vars

(***************************************************************************)
(* What the catalogue says, for the statements below.                      *)
(***************************************************************************)
\* the targets the catalogue lists for source u
CatSuccessors(cat, u) ==
  {cat.relationships[i][3] : i \in {j \in 1..Len(cat.relationships) : cat.relationships[j][1] = u}}

\* the relation of the last tuple the catalogue lists for the pair u, v
CatLastRelation(cat, u, v) ==
  LET I == {j \in 1..Len(cat.relationships) :
              cat.relationships[j][1] = u /\ cat.relationships[j][3] = v}
      last == CHOOSE j \in I : \A k \in I : k <= j
  IN  cat.relationships[last][2]

\* the ordered pairs (source, target) the catalogue lists
CatPairs(cat) ==
  {<<cat.relationships[i][1], cat.relationships[i][3]>> : i \in 1..Len(cat.relationships)}

NoRepeats(s) == \A i, j \in 1..Len(s) : s[i] = s[j] => i = j

EntitiesOf(records) == [i \in 1..Len(records) |-> records[i].entity]

(***************************************************************************)
(* C1: get_entity_context(n) returns the not-found sentinel exactly when n *)
(* is not a node of the graph (no entity and no end point of a relation    *)
(* of the catalogue), and otherwise a bundle whose entity field is n; the  *)
(* call returns in both cases.                                             *)
(***************************************************************************)
C1_EntityContextFoundIffNode ==
  call.op = "get_entity_context" =>
    /\ call.result.found <=> call.entity \in Range(graph.nodes)
    /\ call.result.found <=> call.entity \in CatalogueNames(catalogue)
    /\ call.result.found => call.result.entity = call.entity

C1_Witness ==
  /\ call.op = "get_entity_context"
  /\ call.entity = "A"
  /\ call.result.found
  /\ Len(call.result.related.direct) >= 1

(***************************************************************************)
(* C2: on the seed graph, find_mitigation_path(t) is a non-empty list for  *)
(* every threat t with a direct incoming edge labelled mitigates, and the  *)
(* empty list for every name that is not a node.                           *)
(***************************************************************************)
HasIncomingMitigates(G, t) ==
  \E m \in DOMAIN G.attrs :
    /\ HasEdge(G, m, t)
    /\ Get(GetEdgeData(G, m, t), "relation", "unknown") = "mitigates"

C2_MitigationPathNonEmpty ==
  call.op = "find_mitigation_path" =>
    /\ ( /\ call.threat \in Range(graph.nodes)
         /\ Get(graph.attrs[call.threat], "type", "None") = "threat"
         /\ HasIncomingMitigates(graph, call.threat) )
       => Len(call.result) >= 1
    /\ call.threat \notin Range(graph.nodes) => call.result = <<>>

C2_Witness ==
  /\ call.op = "find_mitigation_path"
  /\ call.threat = "Phishing"
  /\ HasIncomingMitigates(graph, "Phishing")
  /\ Len(call.result) = 2

(***************************************************************************)
(* C3: the direct tier of query_related_entities(e, 2) lists exactly the   *)
(* one-hop successors of e, each once, each with the relation label of its *)
(* edge (the label of the last catalogue tuple for that pair).             *)
(***************************************************************************)
C3_DirectTierIsSuccessors ==
  (call.op = "query_related_entities" /\ call.max_depth = 2
     /\ call.entity \in Range(graph.nodes)) =>
    LET direct == call.result.direct IN
    /\ Range(EntitiesOf(direct)) = CatSuccessors(catalogue, call.entity)
    /\ NoRepeats(EntitiesOf(direct))
    /\ \A i \in 1..Len(direct) :
         direct[i].relation = CatLastRelation(catalogue, call.entity, direct[i].entity)

C3_Witness ==
  /\ call.op = "query_related_entities"
  /\ call.max_depth = 2
  /\ call.entity = "A"
  /\ Len(call.result.direct) >= 3
  /\ "A" \in Range(EntitiesOf(call.result.direct))

(***************************************************************************)
(* C4: with max_depth > 1 every entity appears at most once in the         *)
(* indirect tier of query_related_entities (an entity found through one    *)
(* depth-1 neighbor is not reported again through another).                *)
(***************************************************************************)
C4_IndirectAtMostOnce ==
  (call.op = "query_related_entities" /\ call.max_depth > 1
     /\ call.entity \in Range(graph.nodes)) =>
    NoRepeats(EntitiesOf(call.result.indirect))

(***************************************************************************)
(* C5: the results of retrieve, for any query, top_k >= 1 and a non-empty  *)
(* document list, are in order of non-decreasing score and non-increasing  *)
(* similarity, their ranks are 1, 2, ..., len(results) in list order, and  *)
(* the first result carries the smallest distance between the query and a  *)
(* vector of the index.                                                    *)
(***************************************************************************)
\* a <= b for fractions with positive denominators
FracLeq(a, b) == a.num * b.den <= b.num * a.den

C5_RetrieveOrdered ==
  (ret.op = "retrieve" /\ ret.raised = "" /\ Len(rag.documents) > 0) =>
    /\ \A i \in 1..Len(ret.result) : ret.result[i].rank = i
    /\ \A i \in 1..(Len(ret.result) - 1) :
         /\ ret.result[i].score <= ret.result[i + 1].score
         /\ FracLeq(ret.result[i + 1].similarity, ret.result[i].similarity)
    /\ ret.result # <<>> =>
         \A j \in 1..Len(rag.index[1].vecs) :
           ret.result[1].score <= Distance(rag.index[1].vecs[j], ret.q)

C5_Witness ==
  /\ ret.op = "retrieve"
  /\ ret.raised = ""
  /\ Len(ret.result) = 2
  /\ ret.result[1].score < ret.result[2].score
  /\ ret.result[1].document = rag.documents[2]
  /\ ret.result[2].score < FltMax

(***************************************************************************)
(* C6: retrieve(query, top_k) on an engine whose document list has n       *)
(* entries returns min(top_k, n) results, and the empty list without an    *)
(* error when n = 0.  The code breaks it: add_documents extends the        *)
(* document list before encoding, so after a first add_documents whose     *)
(* encoding raised the list is non-empty while there is no index, and      *)
(* retrieve returns the empty list.                                        *)
(***************************************************************************)
C6_ResultCount ==
  ret.op = "retrieve" =>
    /\ (ret.raised = "" => Len(ret.result) = Min(ret.top_k, Len(rag.documents)))
    /\ (Len(rag.documents) = 0 => ret.raised = "" /\ ret.result = <<>>)

(***************************************************************************)
(* C7: add_documents on an engine whose dimension an earlier batch fixed,  *)
(* with embeddings of another width, raises; the index, the embedding      *)
(* array and the dimension are as before the call, and every vector of the *)
(* index has the width the first batch fixed.                              *)
(***************************************************************************)
IndexWidthIs(eng, d) ==
  /\ eng.index # None
  /\ eng.index[1].d = d
  /\ \A j \in 1..Len(eng.index[1].vecs) : Len(eng.index[1].vecs[j]) = d

C7_MismatchRejected ==
  [][ (rag.dimension # None /\ ret'.op = "add_documents") =>
        /\ rag'.dimension = rag.dimension
        /\ IndexWidthIs(rag', rag.dimension[1])
        /\ (~ret'.enc.raised /\ Width(ret'.enc.rows) # rag.dimension[1]) =>
             /\ ret'.raised # ""
             /\ rag'.index = rag.index
             /\ rag'.embeddings = rag.embeddings ]_vars

C7_Witness ==
  /\ ret.op = "add_documents"
  /\ ret.raised = "ValueError"
  /\ ~ret.enc.raised
  /\ rag.dimension = Some(2)
  /\ Width(ret.enc.rows) = 1
  /\ Len(rag.index[1].vecs) = 1

(***************************************************************************)
(* C8: in both engines a generate_response whose LLM call raised returns   *)
(* a record, its answer holds the error's message, and the record carries  *)
(* the results retrieve gave (and, in AgenticGraphRAG, a bundle            *)
(* _expand_with_kg gave for them).                                         *)
(***************************************************************************)
C8_LLMErrorBecomesAnswer ==
  (ret.op = "generate_response" /\ ret.llm_called /\ ret.llm.raised) =>
    /\ ret.raised = ""
    /\ ret.llm.msg \in Range(ret.result.answer)
    /\ ret.result.retrieved_documents = retrieve(rag, ret.q, ret.top_k).result
    /\ ret.result.num_retrieved = Len(ret.result.retrieved_documents)
    /\ rag.method = "Agentic Graph RAG" =>
         ret.result.kg_context \in
           KgContexts(graph, ret.query, ret.result.retrieved_documents)

C8_Witness ==
  /\ ret.op = "generate_response"
  /\ ret.llm_called
  /\ ret.llm.raised
  /\ rag.method = "Agentic Graph RAG"
  /\ Len(ret.result.retrieved_documents) = 2
  /\ ret.result.kg_context.identified_entities # <<>>
  /\ "Rate limit exceeded" \in Range(ret.result.answer)

(***************************************************************************)
(* C11: extract_entities(text) returns exactly the nodes of the graph      *)
(* whose lowercase name is a substring of the lowercase text, each once    *)
(* (a name inside a longer name counts): a text with 'Phishing' and        *)
(* 'multi-factor authentication' yields both names.                        *)
(***************************************************************************)
C11_ExtractIsSubstringMatch ==
  ret.op = "extract_entities" =>
    /\ NoRepeats(ret.result)
    /\ Range(ret.result) =
         {n \in DOMAIN graph.attrs : IsSubstring(Lower(Chars(n)), Lower(Chars(ret.text)))}
    /\ ret.text = "Phishing bypasses multi-factor authentication" =>
         {"Phishing", "Multi-Factor Authentication"} \subseteq Range(ret.result)

C11_Witness ==
  /\ ret.op = "extract_entities"
  /\ ret.text = "insufficient encryption"
  /\ ret.result = <<"Insufficient Encryption", "Encryption">>

(***************************************************************************)
(* C12: identified_entities of the bundle of expand_with_kg holds the      *)
(* entities extracted from the query and from the text of every retrieved  *)
(* document, each once, and nothing else; for a query naming 'Phishing'    *)
(* it holds 'Phishing' and the mitigations list is not empty.              *)
(***************************************************************************)
C12_IdentifiedIsUnion ==
  ret.op = "expand_with_kg" =>
    LET identified == ret.kg_context.identified_entities
    IN  /\ NoRepeats(identified)
        /\ Range(identified) =
             Range(extract_entities(graph, ret.query))
               \cup UNION {Range(extract_entities(graph, ret.retrieved_docs[i].document)) :
                             i \in 1..Len(ret.retrieved_docs)}
        /\ ret.query = "What is phishing?" =>
             /\ "Phishing" \in Range(identified)
             /\ ret.kg_context.mitigations # <<>>

C12_Witness ==
  /\ ret.op = "expand_with_kg"
  /\ ret.query = "What is phishing?"
  /\ Len(ret.retrieved_docs) = 2
  /\ ret.retrieved_docs[1].document = "Phishing is a threat"
  /\ ret.retrieved_docs[2].document = "weak authentication"
  /\ ret.kg_context.identified_entities = <<"Weak Authentication", "Phishing">>

(***************************************************************************)
(* C13: in the bundle of expand_with_kg, related_threats lists exactly the *)
(* identified entities typed threat and vulnerabilities those typed        *)
(* vulnerability, in the order of identified_entities; mitigations is the  *)
(* concatenation of find_mitigation_path(t) over the identified threats t, *)
(* a mitigator of two of them listed twice; entities of the other types    *)
(* add nothing to the three lists.                                         *)
(***************************************************************************)
\* the entries of seq that are in S, in the order of seq
Restrict(seq, S) == SelectSeq(seq, LAMBDA x : x \in S)

NodesTyped(G, t) == {n \in DOMAIN G.attrs : "type" \in DOMAIN G.attrs[n] /\ G.attrs[n].type = t}

C13_DerivedLists ==
  ret.op = "expand_with_kg" =>
    LET kg == ret.kg_context
        identified == kg.identified_entities
    IN  /\ kg.related_threats = Restrict(identified, NodesTyped(graph, "threat"))
        /\ kg.vulnerabilities = Restrict(identified, NodesTyped(graph, "vulnerability"))
        /\ kg.mitigations =
             Concat([i \in 1..Len(kg.related_threats) |->
                       find_mitigation_path(graph, kg.related_threats[i])])
        /\ Range(identified) \subseteq
               NodesTyped(graph, "mitigation") \cup NodesTyped(graph, "attack_pattern")
             => kg.related_threats = <<>> /\ kg.vulnerabilities = <<>> /\ kg.mitigations = <<>>

C13_Witness ==
  /\ ret.op = "expand_with_kg"
  /\ ret.query = "Malware and Ransomware"
  /\ Len(ret.retrieved_docs) = 1
  /\ ret.retrieved_docs[1].document = "Patch Management"
  /\ Len(ret.kg_context.related_threats) = 2
  /\ Cardinality({i \in 1..Len(ret.kg_context.mitigations) :
                    ret.kg_context.mitigations[i].mitigation = "Patch Management"}) = 2

(***************************************************************************)
(* C14: after construction no query operation (related entities, entity    *)
(* context, mitigation path, entities of a type, statistics, export,       *)
(* extract_entities, expand_with_kg, prompt assembly, retrieve) changes    *)
(* the graph: its nodes, its edges and their attributes stay as they are.  *)
(***************************************************************************)
C14_GraphReadOnly ==
  [][phase = "ready" => (graph' = graph /\ phase' = "ready")]_vars

C14_Witness ==
  /\ phase = "ready"
  /\ "last" \in DOMAIN call
  /\ call.last.op = "export_to_dict"
  /\ ret.op = "expand_with_kg"
  /\ ret.kg_context.identified_entities # <<>>
  /\ graph = InitializeCskg(DiGraph, SeedCatalogue)

(***************************************************************************)
(* C15: two calls of get_graph_statistics in a row, nothing between them,  *)
(* return the same result, and two calls of export_to_dict in a row return *)
(* the same nodes and the same edges as sets.                              *)
(***************************************************************************)
C15_ObserversIdempotent ==
  /\ (call.op = "get_graph_statistics" /\ call.previous # None) =>
       call.result = call.previous[1]
  /\ (call.op = "export_to_dict" /\ call.previous # None) =>
       /\ Range(call.result.nodes) = Range(call.previous[1].nodes)
       /\ Range(call.result.edges) = Range(call.previous[1].edges)

C15_Witness ==
  /\ call.op = "export_to_dict"
  /\ call.previous # None
  /\ Len(call.result.nodes) = 4
  /\ Len(call.result.edges) = 3

(***************************************************************************)
(* C16: the sections of the prompt of AgenticGraphRAG come in one order:   *)
(* 'Retrieved Context:' with one line '[Document N]: text' per retrieved   *)
(* document, N its rank; 'Knowledge Graph Context:'; 'Recommended          *)
(* Mitigations:'; the line 'Question: <query>' and the answer directive,   *)
(* which close every prompt.  A 'Related:' line lists at most 3 direct     *)
(* related entities, and the mitigation lines are those of the first 3     *)
(* mitigations of the bundle at most.                                      *)
(***************************************************************************)
\* the places of a line in a prompt
Places(P, line) == {i \in 1..Len(P) : P[i] = line}

\* the places of the lines of a prompt that start with the part `first`
PlacesStarting(P, first) == {i \in 1..Len(P) : P[i][1] = first}

\* every place of S is below every place of T
Before(S, T) == \A i \in S, j \in T : i < j

C16_PromptSections ==
  ret.op = "expand_with_kg" =>
    LET P == ret.prompt
        docs == ret.retrieved_docs
        kg == ret.kg_context
        RC == Places(P, <<"Retrieved Context:">>)
        DL == PlacesStarting(P, "[Document ")
        KG == Places(P, <<"Knowledge Graph Context:">>)
        EL == PlacesStarting(P, "- ") \cup PlacesStarting(P, "  Related: ")
        RM == Places(P, <<"Recommended Mitigations:">>)
        Q  == Places(P, <<"Question: ", ret.query, "\n">>)
        ML == {i \in PlacesStarting(P, "- ") : \E r \in RM : r < i}
    IN  /\ Cardinality(RC) <= 1 /\ Cardinality(KG) <= 1 /\ Cardinality(RM) <= 1
        /\ Q = {Len(P) - 1}
        /\ P[Len(P)][1] = "Answer (provide a comprehensive response using both retrieved documents and knowledge graph information):"
        /\ Before(RC, DL) /\ Before(DL, KG) /\ Before(KG, EL) /\ Before(KG, RM)
        /\ Before(RC \cup DL \cup KG \cup EL \cup RM, Q)
        /\ (RC # {}) = (docs # <<>>)
        /\ Cardinality(DL) = Len(docs)
        /\ \A i \in 1..Len(docs) :
             \E r \in RC :
               P[r + i] = <<"[Document ", ToString(docs[i].rank), "]: ", docs[i].document>>
        /\ \A i \in PlacesStarting(P, "  Related: ") : Len(P[i]) <= 4 * 3
        /\ Cardinality(ML) = Min(3, Len(kg.mitigations))
        /\ \A k \in 1..Cardinality(ML) :
             \E r \in RM :
               P[r + k] = <<"- ", kg.mitigations[k].mitigation, " (effectiveness: ",
                            kg.mitigations[k].effectiveness, ")">>

C16_Witness ==
  /\ ret.op = "expand_with_kg"
  /\ Len(ret.retrieved_docs) = 2
  /\ Len(ret.kg_context.mitigations) = 5
  /\ "Patch Management" \in DOMAIN ret.kg_context.entity_contexts
  /\ Len(ret.kg_context.entity_contexts["Patch Management"].related.direct) = 4
  /\ \E i \in 1..Len(ret.prompt) :
       ret.prompt[i] = <<"  Related: ", "mitigates", " ", "Malware", ", ",
                         "mitigates", " ", "Ransomware", ", ", "mitigates", " ", "Zero-Day">>

(***************************************************************************)
(* C17: prompt assembly is reproducible.  For the graph, the query and the *)
(* retrieved documents of a call, every bundle _expand_with_kg may return  *)
(* gives the prompt the call built: neither the order of the entities in   *)
(* the Knowledge Graph Context section nor the choice of the 3 listed      *)
(* mitigations depends on the order list(set(...)) yields.  The bundles    *)
(* compared agree on the context of each entity, so that they differ in    *)
(* the order of the entity set only.                                       *)
(***************************************************************************)
C17_PromptReproducible ==
  ret.op = "expand_with_kg" =>
    \A other \in KgContexts(graph, ret.query, ret.retrieved_docs) :
      other.entity_contexts = ret.kg_context.entity_contexts =>
        create_enhanced_prompt(ret.query, ret.retrieved_docs, other) = ret.prompt

(***************************************************************************)
(* C18: after an add_documents(batch) that returned, the document store is *)
(* the store of before followed by the batch in the batch's order, and the *)
(* index holds len(batch) vectors more.  No step of the engine removes or  *)
(* moves a stored document or takes a vector out of the index.             *)
(***************************************************************************)
\* self.index.ntotal if self.index else 0
IndexSize(eng) == IF eng.index = None THEN 0 ELSE Len(eng.index[1].vecs)

C18_StoreGrowsInOrder ==
  [][ /\ Len(rag'.documents) >= Len(rag.documents)
      /\ SubSeq(rag'.documents, 1, Len(rag.documents)) = rag.documents
      /\ IndexSize(rag') >= IndexSize(rag)
      /\ (ret = NoCall /\ ret'.op = "add_documents" /\ ret'.raised = "") =>
           /\ rag'.documents = rag.documents \o ret'.documents
           /\ Len(rag'.documents) = Len(rag.documents) + Len(ret'.documents)
           /\ IndexSize(rag') = IndexSize(rag) + Len(ret'.documents)
           /\ \A j \in 1..IndexSize(rag) : rag'.index[1].vecs[j] = rag.index[1].vecs[j] ]_vars

C18_Witness ==
  /\ ret.op = "add_documents"
  /\ ret.raised = ""
  /\ Len(ret.documents) = 1
  /\ Len(rag.documents) = 2
  /\ rag.documents[1] # rag.documents[2]
  /\ rag.documents[2] = ret.documents[1]
  /\ IndexSize(rag) = 2

(***************************************************************************)
(* C19: a configuration error when the LLM client is obtained (a provider  *)
(* that is not supported, or no credentials for a supported one) is fatal: *)
(* the call of create_client, and the construction of an ExperimentRunner  *)
(* with that provider, end with an error raised and never in a fallback    *)
(* mode.                                                                   *)
(***************************************************************************)
ConfigError(provider, env) ==
  \/ LowerProvider(provider) \notin {"openai", "anthropic"}
  \/ LowerProvider(provider) = "openai" /\ ~env.openai_key
  \/ LowerProvider(provider) = "anthropic" /\ ~env.anthropic_key

C19_ConfigErrorFatal ==
  (runner.pc \notin {"none", "start"} /\ ConfigError(runner.provider, runner.env)) =>
    /\ runner.pc = "raised"
    /\ runner.raised # ""
    /\ runner.log = <<>>

(***************************************************************************)
(* C20: a run started with --demo makes no LLM API call: every pass of the *)
(* query loops of both engines takes the demo branch (retrieve and a mock  *)
(* response) and generate_response is never called, whether or not a       *)
(* client could be created from the environment.                           *)
(***************************************************************************)
C20_DemoMakesNoLLMCall ==
  (runner.pc # "none" /\ runner.entry = "main" /\ runner.demo) =>
    \A k \in 1..Len(runner.log) :
      /\ runner.log[k].call = "retrieve"
      /\ runner.log[k].response = "[Demo Response]"

(***************************************************************************)
(* C21: every engine instance has a document store of its own and every    *)
(* AgenticGraphRAG instance a knowledge graph of its own.  After           *)
(* construction the graphs of two instances have the same content; an      *)
(* add_documents on one instance, or a change of its graph, leaves the     *)
(* documents, the embeddings, the index and the graph of the other as      *)
(* they were.                                                              *)
(***************************************************************************)
Other(x) == IF x = "a" THEN "b" ELSE "a"

C21_InstancesPrivate ==
  /\ (engines.heap # <<>> /\ engines.a.kg # None /\ engines.b.kg # None) =>
       /\ InstanceGraph(engines.heap, engines.a) = InstanceGraph(engines.heap, engines.b)
       /\ engines.a.kg # engines.b.kg
  /\ [][ \A x \in InstanceNames :
           engines'.last.on = x =>
             /\ Deref(engines'.heap, engines'[Other(x)]) = Deref(engines.heap, engines[Other(x)])
             /\ InstanceGraph(engines'.heap, engines'[Other(x)])
                  = InstanceGraph(engines.heap, engines[Other(x)]) ]_vars

C21_Witness ==
  /\ engines.heap # <<>>
  /\ engines.a.kg # None /\ engines.b.kg # None
  /\ Len(engines.heap[engines.a.documents]) = 2
  /\ Len(engines.heap[engines.b.documents]) = 1
  /\ engines.a.index # None /\ engines.b.index # None
  /\ HasNode(InstanceGraph(engines.heap, engines.a)[1], "NonExistentThreat")
  /\ ~HasNode(InstanceGraph(engines.heap, engines.b)[1], "NonExistentThreat")

(***************************************************************************)
(* C22: for every node t of any graph, find_mitigation_path(t) holds one   *)
(* record per node typed mitigation with an edge to t, whatever the        *)
(* relation of the edge, in node order, with path 'direct', the relation   *)
(* of the edge and the effectiveness of the mitigation node.  A mitigation *)
(* that reaches t through another entity only is not reported, nor is a    *)
(* node of another type.                                                   *)
(***************************************************************************)
\* the nodes typed mitigation that the catalogue gives a tuple to t, in
\* node order
DirectMitigators(G, cat, t) ==
  SelectSeq(G.nodes, LAMBDA n : /\ Get(G.attrs[n], "type", "None") = "mitigation"
                                /\ t \in CatSuccessors(cat, n))

C22_MitigationPathDirectOnly ==
  (call.op = "find_mitigation_path" /\ call.threat \in Range(graph.nodes)) =>
    LET expected == DirectMitigators(graph, catalogue, call.threat)
    IN  /\ Len(call.result) = Len(expected)
        /\ \A i \in 1..Len(expected) :
             call.result[i] =
               [mitigation    |-> expected[i],
                path          |-> "direct",
                relation      |-> CatLastRelation(catalogue, expected[i], call.threat),
                effectiveness |-> Get(graph.attrs[expected[i]], "effectiveness", "unknown")]

C22_Witness ==
  /\ call.op = "find_mitigation_path"
  /\ call.threat = "B"
  /\ HasNode(graph, "M")
  /\ Get(graph.attrs["M"], "type", "None") = "mitigation"
  /\ HasEdge(graph, "M", "A") /\ HasEdge(graph, "A", "B") /\ ~HasEdge(graph, "M", "B")
  /\ call.result = << [mitigation |-> "A", path |-> "direct", relation |-> "exploits",
                       effectiveness |-> "medium"] >>

(***************************************************************************)
(* C23: every record of the indirect tier of query_related_entities(e, 2)  *)
(* names a target that is neither e nor a one-hop successor of e, its via  *)
(* is a one-hop successor of e, and the edge via -> target exists with the *)
(* relation reported.  The indirect tier is empty when max_depth <= 1, and *)
(* the call returns the empty structure when e is not a node.              *)
(***************************************************************************)
C23_IndirectTierSound ==
  call.op = "query_related_entities" =>
    IF call.entity \notin Range(graph.nodes) THEN call.result = EmptyDict
    ELSE LET indirect == call.result.indirect
             hop1 == CatSuccessors(catalogue, call.entity)
         IN  /\ call.max_depth <= 1 => indirect = <<>>
             /\ \A i \in 1..Len(indirect) :
                  /\ indirect[i].entity # call.entity
                  /\ indirect[i].entity \notin hop1
                  /\ indirect[i].via \in hop1
                  /\ indirect[i].entity \in CatSuccessors(catalogue, indirect[i].via)
                  /\ indirect[i].relation
                       = CatLastRelation(catalogue, indirect[i].via, indirect[i].entity)

C23_Witness ==
  /\ call.op = "query_related_entities"
  /\ call.entity = "D"
  /\ call.max_depth = 2
  /\ HasEdge(graph, "D", "A") /\ HasEdge(graph, "A", "A") /\ HasEdge(graph, "A", "B")
  /\ Len(call.result.indirect) = 1
  /\ call.result.indirect[1].entity = "B"
  /\ call.result.indirect[1].via = "A"

(***************************************************************************)
(* C24: in the bundle of expand_with_kg the keys of entity_contexts are    *)
(* the identified entities whose context is found, the context under key k *)
(* has k in its entity field and k's attributes, and an identified entity  *)
(* without a context has no key while the bundle is produced all the same. *)
(***************************************************************************)
C24_ContextKeys ==
  ret.op = "expand_with_kg" =>
    LET contexts == ret.kg_context.entity_contexts
        identified == Range(ret.kg_context.identified_entities)
    IN  /\ DOMAIN contexts = {e \in identified : e \in Range(graph.nodes)}
        /\ \A k \in DOMAIN contexts :
             /\ contexts[k].entity = k
             /\ contexts[k].attributes = graph.attrs[k]
        /\ DOMAIN ret.kg_context =
             {"identified_entities", "entity_contexts", "mitigations",
              "related_threats", "vulnerabilities"}

C24_Witness ==
  /\ ret.op = "expand_with_kg"
  /\ Range(ret.kg_context.identified_entities) = {"Phishing", "Weak Authentication"}
  /\ DOMAIN ret.kg_context.entity_contexts = {"Phishing", "Weak Authentication"}
  /\ ret.kg_context.entity_contexts["Weak Authentication"].entity = "Weak Authentication"

(***************************************************************************)
(* C25: get_graph_statistics guards the division of avg_degree: on a graph *)
(* without nodes it returns a result with node count 0, edge count 0 and   *)
(* per-type counts 0 and raises nothing; on a graph with nodes avg_degree  *)
(* is the sum of the degrees over the node count, 2 * num_edges /          *)
(* num_nodes.                                                              *)
(***************************************************************************)
C25_StatisticsGuarded ==
  call.op = "get_graph_statistics" =>
    /\ call.result.raised = ""
    /\ call.result.num_nodes = Len(graph.nodes)
    /\ Len(graph.nodes) = 0 =>
         /\ call.result.num_edges = 0
         /\ \A t \in Range(NodeTypes) : call.result.node_types[t] = 0
    /\ Len(graph.nodes) > 0 =>
         /\ call.result.avg_degree.num = 2 * call.result.num_edges
         /\ call.result.avg_degree.den = call.result.num_nodes

(***************************************************************************)
(* C26: run_full_experiment runs the Traditional RAG experiment, the       *)
(* Agentic Graph RAG experiment, compare_results and save_results in this  *)
(* order; when both runs are complete, compare_results raises nothing,     *)
(* save_results is executed and the pair of results is returned.           *)
(***************************************************************************)
C26_FullExperimentCompletes ==
  /\ (runner.pc # "none" /\ Len(runner.log) > 0) =>
       \A j, k \in 1..Len(runner.log) :
         (runner.log[j].engine = "Traditional RAG"
            /\ runner.log[k].engine = "Agentic Graph RAG") => j < k
  /\ (runner.pc \in {"raised", "returned"} /\ Len(runner.log) = 2 * MaxQueries) =>
       /\ runner.pc = "returned"
       /\ runner.raised = ""
       /\ runner.steps = <<"compare_results", "save_results">>

(***************************************************************************)
(* C27: run_multi_llm_experiments takes the configurations one after the   *)
(* other in list order; an error raised while one runs is caught and no    *)
(* later configuration is left out, and all_results holds one entry per    *)
(* configuration whose experiment completed, in list order.                *)
(***************************************************************************)
C27_EveryConfigurationRuns ==
  "multi" \in DOMAIN runner =>
    LET m == runner.multi
        failed == {m.caught[j].pass : j \in 1..Len(m.caught)}
        passed == (1..(m.k - 1)) \ failed
    IN  /\ m.k \in 1..(Len(m.configs) + 1)
        /\ runner.pc = "done" <=> m.k = Len(m.configs) + 1
        /\ runner.pc # "done" => runner.provider = m.configs[m.k][1]
        /\ failed \subseteq 1..(m.k - 1)
        /\ \A j \in 1..Len(m.caught) : \A l \in 1..(j - 1) : m.caught[l].pass < m.caught[j].pass
        /\ Len(m.all_results) = Cardinality(passed)
        /\ \A j \in 1..Len(m.all_results) :
             \E p \in passed :
               /\ Cardinality({q \in passed : q < p}) = j - 1
               /\ m.all_results[j].provider = m.configs[p][1]

C27_Witness ==
  /\ "multi" \in DOMAIN runner
  /\ Len(runner.multi.configs) = 2
  /\ runner.multi.k = 2
  /\ Len(runner.multi.caught) = 1
  /\ runner.multi.caught[1].error = "KeyError"
  /\ runner.pc = "ran"
  /\ runner.provider = runner.multi.configs[2][1]

(***************************************************************************)
(* C28: evaluate_batch returns one individual record per query, in query   *)
(* order, so that aggregated.num_queries is the number of individual       *)
(* records, for every combination of the lists it is given.                *)
(***************************************************************************)
C28_OneRecordPerQuery ==
  evaluation.op = "evaluate_batch" =>
    /\ Len(evaluation.result.individual) = Len(evaluation.queries)
    /\ evaluation.result.aggregated.num_queries = Len(evaluation.result.individual)
    /\ \A i \in 1..Len(evaluation.queries) :
         evaluation.result.individual[i] =
           evaluate_response(evaluation.queries[i], evaluation.responses[i],
                             evaluation.ground_truths[i], evaluation.retrieved_docs_list[i])

(***************************************************************************)
(* C29: in every state a sequence of add_documents and retrieve calls on   *)
(* one engine reaches, calls of add_documents that raised included, the    *)
(* number of documents equals the number of vectors in the index and the   *)
(* number of embedding rows, so that every result of a retrieve is a       *)
(* document whose own vector is in the index.                              *)
(***************************************************************************)
EmbeddingRows(eng) == IF eng.embeddings = None THEN 0 ELSE Len(eng.embeddings[1])

C29_DocumentsMatchIndex ==
  rag.method \in Methods =>
    /\ Len(rag.documents) = IndexSize(rag)
    /\ Len(rag.documents) = EmbeddingRows(rag)

(***************************************************************************)
(* C30: TraditionalRAG and AgenticGraphRAG are equivalent on the           *)
(* vector-index operations.  Given the same batches and the same           *)
(* embeddings they hold equal documents, embeddings and index after every  *)
(* step, add_documents raises in one exactly when it raises in the other,  *)
(* and retrieve(query, top_k) returns the same list from both: documents,  *)
(* ranks, distances and similarities.                                      *)
(***************************************************************************)
C30_EnginesEquivalent ==
  engines.heap # <<>> =>
    LET a == Deref(engines.heap, engines.a)
        b == Deref(engines.heap, engines.b)
    IN  /\ a.documents = b.documents
        /\ a.embeddings = b.embeddings
        /\ a.index = b.index
        /\ a.dimension = b.dimension
        /\ engines.last.op \in {"add_documents", "retrieve"} => engines.last.a = engines.last.b

C30_Witness ==
  /\ engines.heap # <<>>
  /\ engines.a.method = "Traditional RAG" /\ engines.b.method = "Agentic Graph RAG"
  /\ engines.last.op = "retrieve"
  /\ engines.last.top_k = 2
  /\ engines.last.b.raised = ""
  /\ Len(engines.last.b.result) = 2
  /\ engines.last.b.result[1].document # engines.last.b.result[2].document
  /\ engines.last.b.result[1].score < engines.last.b.result[2].score

(***************************************************************************)
(* C9: the graph built from the seed catalogue reports num_nodes = 24, the *)
(* sum of the four per-type counts, and num_edges = 24, the number of seed *)
(* relationship tuples.  The statement as first made has num_edges = 22.   *)
(***************************************************************************)
C9_SeedStatistics ==
  call.op = "get_graph_statistics" =>
    /\ call.result.raised = ""
    /\ call.result.num_nodes = 24
    /\ call.result.num_nodes =
         SumSeq([i \in 1..Len(NodeTypes) |-> call.result.node_types[NodeTypes[i]]])
    /\ call.result.node_types =
         [t \in Range(NodeTypes) |->
            CASE t = "threat" -> 8 [] t = "vulnerability" -> 5
              [] t = "mitigation" -> 7 [] t = "attack_pattern" -> 4]
    /\ call.result.num_edges = 24
    /\ call.result.num_edges = Len(catalogue.relationships)

C9_Witness ==
  /\ call.op = "get_graph_statistics"
  /\ catalogue = SeedCatalogue
  /\ call.result.raised = ""

C9_Original ==
  call.op = "get_graph_statistics" =>
    /\ call.result.raised = ""
    /\ call.result.num_nodes = 24
    /\ call.result.num_edges = 22

(***************************************************************************)
(* C10: after construction from any catalogue the graph holds one edge per *)
(* ordered pair (source, target) the catalogue lists: the edge count, which *)
(* get_graph_statistics reports as num_edges, is the number of distinct    *)
(* pairs, and equals the number of tuples when no pair is listed twice.    *)
(* The statement as first made has it equal the number of tuples always.   *)
(***************************************************************************)
AtMostOneEdgePerPair(G) ==
  \A u \in DOMAIN G.adj : NoRepeats(Neighbors(G, u))

C10_EdgesAreDistinctPairs ==
  phase = "ready" =>
    /\ AtMostOneEdgePerPair(graph)
    /\ NumberOfEdges(graph) = Cardinality(CatPairs(catalogue))
    /\ Cardinality(CatPairs(catalogue)) = Len(catalogue.relationships)
         => NumberOfEdges(graph) = Len(catalogue.relationships)
    /\ (call.op = "get_graph_statistics" /\ call.result.raised = "")
         => call.result.num_edges = Cardinality(CatPairs(catalogue))

C10_Witness ==
  /\ call.op = "get_graph_statistics"
  /\ call.result.raised = ""
  /\ Len(catalogue.relationships) = 4
  /\ call.result.num_edges = 3

C10_Original ==
  (call.op = "get_graph_statistics" /\ call.result.raised = "") =>
    /\ call.result.num_edges = Len(catalogue.relationships)
    /\ AtMostOneEdgePerPair(graph)

====
